---------------------------- MODULE Spec2Model ----------------------------
(***************************************************************************)
(* Karel the Robot: the World model (world.ts, karel.ts) and the resumable *)
(* frame-stack Interpreter (interpreter.ts), with the properties claimed   *)
(* of them.                                                                *)
(*                                                                         *)
(* Strings built with template literals are modelled as tuples of their    *)
(* parts: a position key "x,y" is <<x, y>>, a wall key "x1,y1|x2,y2" is    *)
(* <<x1, y1, x2, y2>>.  A JavaScript Map is the sequence of its            *)
(* <<key, value>> entries in insertion order, a Set the sequence of its    *)
(* members in insertion order.  An optional value is a sequence of length  *)
(* 0 (undefined) or 1.                                                     *)
(*                                                                         *)
(* A record is written with its fields in the order in which their names   *)
(* first occur in the module: the order in which TLC keeps them.           *)
(***************************************************************************)
EXTENDS Integers, Sequences, FiniteSets, TLC

\* ------------------------------------------------------------------------
\* Bounds of the model
\* ------------------------------------------------------------------------

\* Largest ITERATE count among the programs of the model.
MaxCount == 3

\* Largest number of consecutive turnLeft() calls examined.
MaxTurns == 5

\* Iteration ceiling of the interpreter, scaled down from the 100000 of the
\* source so that a runaway loop is cut within the model's horizon.
maxIterations == 24

\* Largest delay, in milliseconds, asked of setSpeed.
MaxMs == 2100

\* Largest number of edits made to a document before it is parsed.
MaxEdits == 1

\* ------------------------------------------------------------------------
\* String helpers
\* ------------------------------------------------------------------------

\* String.prototype.toLowerCase on the strings that occur in the model.
toLowerCase(s) ==
  CASE s = "N" -> "n"
    [] s = "North" -> "north"
    [] s = "EAST" -> "east"
    [] s = "TurnLeft" -> "turnleft"
    [] s = "TURNRIGHT" -> "turnright"
    [] s = "TurnRight" -> "turnright"
    [] s = "TurnOff" -> "turnoff"
    [] s = "Front-Is-Clear" -> "front-is-clear"
    [] s = "Move" -> "move"
    [] s = "TURNAROUND" -> "turnaround"
    [] s = "ITERATE" -> "iterate"
    [] s = "End" -> "end"
    [] s = "END" -> "end"
    [] s = "BEGIN" -> "begin"
    [] s = "ELSE" -> "else"
    [] s = "THEN" -> "then"
    [] s = "DO" -> "do"
    [] s = "IF" -> "if"
    [] s = "WHILE" -> "while"
    [] s = "TIMES" -> "times"
    [] s = "AS" -> "as"
    [] s = "DEFINE-NEW-INSTRUCTION" -> "define-new-instruction"
    [] s = "BEGINNING-OF-PROGRAM" -> "beginning-of-program"
    [] s = "BEGINNING-OF-EXECUTION" -> "beginning-of-execution"
    [] s = "END-OF-EXECUTION" -> "end-of-execution"
    [] s = "END-OF-PROGRAM" -> "end-of-program"
    [] s = "LEFT-IS-BLOCKED" -> "left-is-blocked"
    [] s = "Not-Facing-East" -> "not-facing-east"
    [] s = "BEEPER-IN-BAG" -> "beeper-in-bag"
    [] s = "Facing-Up" -> "facing-up"
    [] OTHER -> s

\* ------------------------------------------------------------------------
\* JavaScript Map and Set, in insertion order
\* ------------------------------------------------------------------------

MapHas(m, k) == \E i \in 1..Len(m) : m[i][1] = k

\* Map.get(k) ?? d
MapGetOr(m, k, d) ==
  IF MapHas(m, k) THEN m[CHOOSE i \in 1..Len(m) : m[i][1] = k][2] ELSE d

MapSet(m, k, v) ==
  IF MapHas(m, k)
  THEN [i \in 1..Len(m) |-> IF m[i][1] = k THEN <<k, v>> ELSE m[i]]
  ELSE Append(m, <<k, v>>)

MapDelete(m, k) == SelectSeq(m, LAMBDA e : e[1] # k)

SetHas(s, k) == \E i \in 1..Len(s) : s[i] = k

SetAdd(s, k) == IF SetHas(s, k) THEN s ELSE Append(s, k)

\* ------------------------------------------------------------------------
\* karel.ts
\* ------------------------------------------------------------------------

North == "north"
West == "west"
South == "south"
East == "east"

Direction == {North, West, South, East}

DirectionVectors ==
  [d \in Direction |->
     CASE d = North -> [x |-> 0, y |-> 1]
       [] d = West -> [x |-> -1, y |-> 0]
       [] d = South -> [x |-> 0, y |-> -1]
       [] d = East -> [x |-> 1, y |-> 0]]

\* A left-turn table with the entries of South and East exchanged.
LeftTurnMap_exchanged ==
  [d \in Direction |->
     CASE d = North -> West
       [] d = West -> South
       [] d = South -> North
       [] d = East -> East]

LeftTurnMap ==
  [d \in Direction |->
     CASE d = North -> West
       [] d = West -> South
       [] d = South -> East
       [] d = East -> North]

RightTurnMap ==
  [d \in Direction |->
     CASE d = North -> East
       [] d = East -> South
       [] d = South -> West
       [] d = West -> North]

\* The strings parseDirection accepts; any other string makes it throw.
ValidDirectionStrings == {"north", "n", "west", "w", "south", "s", "east", "e"}

parseDirection(value) ==
  LET normalized == toLowerCase(value) IN
  CASE normalized \in {"north", "n"} -> North
    [] normalized \in {"west", "w"} -> West
    [] normalized \in {"south", "s"} -> South
    [] normalized \in {"east", "e"} -> East

\* new Karel(position, facing, beepersInBag)
Karel_new(position, facing, beepersInBag) ==
  [position |-> [x |-> position.x, y |-> position.y],
   facing |-> facing,
   beepersInBag |-> beepersInBag]

hasBeepersInBag(k) == k.beepersInBag > 0

PosPlus(p, v) == [x |-> p.x + v.x, y |-> p.y + v.y]

frontPosition(k) == PosPlus(k.position, DirectionVectors[k.facing])

leftPosition(k) == PosPlus(k.position, DirectionVectors[LeftTurnMap[k.facing]])

rightPosition(k) == PosPlus(k.position, DirectionVectors[RightTurnMap[k.facing]])

Karel_move(k) == [k EXCEPT !.position = frontPosition(k)]

Karel_turnLeft(k) == [k EXCEPT !.facing = LeftTurnMap[k.facing]]

Karel_pickBeeper(k) == [k EXCEPT !.beepersInBag = @ + 1]

\* Karel.putBeeper: the new robot and the boolean it returns.
Karel_putBeeper(k) ==
  IF k.beepersInBag <= 0
  THEN [karel |-> k, ret |-> FALSE]
  ELSE [karel |-> [k EXCEPT !.beepersInBag = @ - 1], ret |-> TRUE]

isFacing(k, direction) == k.facing = direction

clone(k) == Karel_new(k.position, k.facing, k.beepersInBag)

Karel_toJSON(k) ==
  [x |-> k.position.x, y |-> k.position.y, facing |-> k.facing,
   beepers |-> <<k.beepersInBag>>]

\* data.beepers is optional: data.beepers ?? 0
Karel_fromJSON(data) ==
  Karel_new([x |-> data.x, y |-> data.y], parseDirection(data.facing),
            IF data.beepers = <<>> THEN 0 ELSE data.beepers[1])


\* ------------------------------------------------------------------------
\* world.ts
\* ------------------------------------------------------------------------

\* A thrown exception: its class name, its message key and its optional line.
Exception(name, message, line) == [name |-> name, message |-> message, line |-> line]

\* new Error(message)
Error(message) == Exception("Error", message, <<>>)

\* wallKey without the sorting of its endpoints.
wallKey_unsorted(from, to) == <<from.x, from.y, to.x, to.y>>

\* `${from.x},${from.y}|${to.x},${to.y}`, endpoints in sorted order
wallKey(from, to) ==
  IF from.x < to.x \/ (from.x = to.x /\ from.y < to.y)
  THEN <<from.x, from.y, to.x, to.y>>
  ELSE <<to.x, to.y, from.x, from.y>>

\* `${pos.x},${pos.y}`
positionKey(pos) == <<pos.x, pos.y>>

Abs(n) == IF n < 0 THEN -n ELSE n

\* areAdjacent that also takes the diagonal neighbours.
areAdjacent_diagonal(a, b) ==
  LET dx == Abs(a.x - b.x)
      dy == Abs(a.y - b.y)
  IN dx <= 1 /\ dy <= 1 /\ dx + dy > 0

areAdjacent(a, b) ==
  LET dx == Abs(a.x - b.x)
      dy == Abs(a.y - b.y)
  IN (dx = 1 /\ dy = 0) \/ (dx = 0 /\ dy = 1)

\* World.addWall on the wall set: the new set, or the exception thrown.
addWall(walls, from, to) ==
  IF ~areAdjacent(from, to)
  THEN [walls |-> walls, thrown |-> <<Error("invalidWall")>>]
  ELSE [walls |-> SetAdd(walls, wallKey(from, to)), thrown |-> <<>>]

\* World.removeWall on the wall set.
removeWall(walls, from, to) == SelectSeq(walls, LAMBDA k : k # wallKey(from, to))

RECURSIVE AddWalls(_, _, _)
\* The constructor's loop over map.walls, from index i.
AddWalls(walls, list, i) ==
  IF i > Len(list) THEN [walls |-> walls, thrown |-> <<>>]
  ELSE LET r == addWall(walls, list[i].from, list[i].to) IN
       IF r.thrown # <<>> THEN r ELSE AddWalls(r.walls, list, i + 1)

RECURSIVE SetBeepers(_, _, _)
\* The constructor's loop over map.beepers, from index i.
SetBeepers(beepers, list, i) ==
  IF i > Len(list) THEN beepers
  ELSE SetBeepers(MapSet(beepers, positionKey([x |-> list[i].x, y |-> list[i].y]),
                         list[i].count),
                  list, i + 1)

\* new World(map): the world built, or the exception thrown by addWall.
World_new(map) ==
  LET k == Karel_fromJSON(map.karel)
      b == SetBeepers(<<>>, map.beepers, 1)
      w == AddWalls(<<>>, map.walls, 1)
  IN [thrown |-> w.thrown,
      world |-> [karel |-> k,
                 beepers |-> b,
                 walls |-> w.walls,
                 dimensions |-> [width |-> map.dimensions.width,
                                 height |-> map.dimensions.height],
                 initialKarel |-> clone(k),
                 initialBeepers |-> b,
                 isModified |-> FALSE]]

hasWall(w, from, to) == SetHas(w.walls, wallKey(from, to))

\* Bounds that take column 0 and row 0 for cells of the grid.
isInBounds_zeroBased(w, pos) ==
  /\ pos.x >= 0
  /\ pos.x <= w.dimensions.width
  /\ pos.y >= 0
  /\ pos.y <= w.dimensions.height

isInBounds(w, pos) ==
  /\ pos.x >= 1
  /\ pos.x <= w.dimensions.width
  /\ pos.y >= 1
  /\ pos.y <= w.dimensions.height

\* isBlocked that looks at the bounds only.
isBlocked_boundsOnly(w, from, to) == ~isInBounds(w, to)

isBlocked(w, from, to) ==
  IF ~isInBounds(w, to) THEN TRUE ELSE hasWall(w, from, to)

frontIsBlocked(w) == isBlocked(w, w.karel.position, frontPosition(w.karel))

frontIsClear(w) == ~frontIsBlocked(w)

leftIsBlocked(w) == isBlocked(w, w.karel.position, leftPosition(w.karel))

\* leftIsClear without the negation.
leftIsClear_notNegated(w) == leftIsBlocked(w)

leftIsClear(w) == ~leftIsBlocked(w)

rightIsBlocked(w) == isBlocked(w, w.karel.position, rightPosition(w.karel))

rightIsClear(w) == ~rightIsBlocked(w)

getBeepers(w, pos) == MapGetOr(w.beepers, positionKey(pos), 0)

nextToABeeper(w) == getBeepers(w, w.karel.position) > 0

beeperInBag(w) == hasBeepersInBag(w.karel)

addBeepers(w, pos, count) ==
  LET key == positionKey(pos)
      current == MapGetOr(w.beepers, key, 0)
  IN [w EXCEPT !.beepers = MapSet(w.beepers, key, current + count)]

\* removeBeeper that stores the count 0 instead of deleting the entry.
removeBeeper_keepsZero(w, pos) ==
  LET key == positionKey(pos)
      current == MapGetOr(w.beepers, key, 0)
  IN IF current <= 0 THEN [ret |-> FALSE, world |-> w]
     ELSE [ret |-> TRUE,
           world |-> [w EXCEPT !.beepers = MapSet(w.beepers, key, current - 1)]]

\* World.removeBeeper: the new world and the boolean it returns.
removeBeeper(w, pos) ==
  LET key == positionKey(pos)
      current == MapGetOr(w.beepers, key, 0)
  IN IF current <= 0 THEN [ret |-> FALSE, world |-> w]
     ELSE IF current = 1
          THEN [ret |-> TRUE, world |-> [w EXCEPT !.beepers = MapDelete(w.beepers, key)]]
          ELSE [ret |-> TRUE,
                world |-> [w EXCEPT !.beepers = MapSet(w.beepers, key, current - 1)]]

\* The four robot actions: the new world and the exception thrown, if any.
World_move(w) ==
  IF frontIsBlocked(w)
  THEN [thrown |-> <<Error("moveBlocked")>>, world |-> w]
  ELSE [thrown |-> <<>>,
        world |-> [w EXCEPT !.karel = Karel_move(w.karel), !.isModified = TRUE]]

\* turnLeft that does not set the modified flag.
World_turnLeft_unflagged(w) ==
  [thrown |-> <<>>, world |-> [w EXCEPT !.karel = Karel_turnLeft(w.karel)]]

World_turnLeft(w) ==
  [thrown |-> <<>>,
   world |-> [w EXCEPT !.karel = Karel_turnLeft(w.karel), !.isModified = TRUE]]

\* pickBeeper that takes the beeper off the cell and does not bag it.
World_pickBeeper_notBagged(w) ==
  LET pos == w.karel.position
      r == removeBeeper(w, pos)
  IN IF ~r.ret
     THEN [thrown |-> <<Error("noBeepersToPickUp")>>, world |-> r.world]
     ELSE [thrown |-> <<>>, world |-> [r.world EXCEPT !.isModified = TRUE]]

World_pickBeeper(w) ==
  LET pos == w.karel.position
      r == removeBeeper(w, pos)
  IN IF ~r.ret
     THEN [thrown |-> <<Error("noBeepersToPickUp")>>, world |-> r.world]
     ELSE [thrown |-> <<>>,
           world |-> [r.world EXCEPT !.karel = Karel_pickBeeper(r.world.karel),
                                     !.isModified = TRUE]]

World_putBeeper(w) ==
  LET r == Karel_putBeeper(w.karel) IN
  IF ~r.ret
  THEN [thrown |-> <<Error("noBeepersInBag")>>, world |-> [w EXCEPT !.karel = r.karel]]
  ELSE [thrown |-> <<>>,
        world |-> [addBeepers([w EXCEPT !.karel = r.karel], r.karel.position, 1)
                     EXCEPT !.isModified = TRUE]]

\* The condition names evaluateCondition recognises.
WorldConditions ==
  {"front-is-clear", "front-is-blocked", "left-is-clear", "left-is-blocked",
   "right-is-clear", "right-is-blocked", "next-to-a-beeper", "not-next-to-a-beeper",
   "facing-north", "not-facing-north", "facing-south", "not-facing-south",
   "facing-east", "not-facing-east", "facing-west", "not-facing-west",
   "beeper-in-bag"}

\* World.evaluateCondition: the boolean returned, or the exception thrown.
evaluateCondition(w, condition) ==
  LET c == toLowerCase(condition) IN
  IF c \notin WorldConditions
  THEN [ret |-> FALSE, thrown |-> <<Error("Unknown condition")>>]
  ELSE [ret |-> CASE c = "front-is-clear" -> frontIsClear(w)
                  [] c = "front-is-blocked" -> frontIsBlocked(w)
                  [] c = "left-is-clear" -> leftIsClear(w)
                  [] c = "left-is-blocked" -> leftIsBlocked(w)
                  [] c = "right-is-clear" -> rightIsClear(w)
                  [] c = "right-is-blocked" -> rightIsBlocked(w)
                  [] c = "next-to-a-beeper" -> nextToABeeper(w)
                  [] c = "not-next-to-a-beeper" -> ~nextToABeeper(w)
                  [] c = "facing-north" -> isFacing(w.karel, North)
                  [] c = "not-facing-north" -> ~isFacing(w.karel, North)
                  [] c = "facing-south" -> isFacing(w.karel, South)
                  [] c = "not-facing-south" -> ~isFacing(w.karel, South)
                  [] c = "facing-east" -> isFacing(w.karel, East)
                  [] c = "not-facing-east" -> ~isFacing(w.karel, East)
                  [] c = "facing-west" -> isFacing(w.karel, West)
                  [] c = "not-facing-west" -> ~isFacing(w.karel, West)
                  [] c = "beeper-in-bag" -> beeperInBag(w),
        thrown |-> <<>>]

\* reset that restores the robot and forgets the beepers.
World_reset_robotOnly(w) ==
  [w EXCEPT !.karel = clone(w.initialKarel), !.isModified = FALSE]

World_reset(w) ==
  [w EXCEPT !.karel = clone(w.initialKarel),
            !.beepers = w.initialBeepers,
            !.isModified = FALSE]

\* getAllBeepers with the two halves of the key taken in the wrong order.
getAllBeepers_swapped(w) ==
  [i \in 1..Len(w.beepers) |->
     [x |-> w.beepers[i][1][2], y |-> w.beepers[i][1][1], count |-> w.beepers[i][2]]]

\* World.getAllBeepers: key.split(",").map(Number) on every entry, in order.
getAllBeepers(w) ==
  [i \in 1..Len(w.beepers) |->
     [x |-> w.beepers[i][1][1], y |-> w.beepers[i][1][2], count |-> w.beepers[i][2]]]

\* World.getAllWalls: key.split("|"), then split(",").map(Number) on each half.
getAllWalls(w) ==
  [i \in 1..Len(w.walls) |->
     [from |-> [x |-> w.walls[i][1], y |-> w.walls[i][2]],
      to |-> [x |-> w.walls[i][3], y |-> w.walls[i][4]]]]

World_toJSON(w) ==
  [karel |-> Karel_toJSON(w.karel),
   beepers |-> getAllBeepers(w),
   walls |-> getAllWalls(w),
   dimensions |-> w.dimensions]

World_fromJSON(map) == World_new(map)

\* ------------------------------------------------------------------------
\* interpreter.ts: AST nodes and execution frames
\* ------------------------------------------------------------------------

\* An interpreter state s is the record of the Interpreter's fields, the
\* World it owns (s.world) and the number of notifications delivered through
\* onStep, onComplete and onError (with the last error delivered).

null == [type |-> "null"]

Call(name, line) == [name |-> name, line |-> line, type |-> "call"]

Block(statements) == [type |-> "block", statements |-> statements]

\* elseBranch is optional: <<>> or <<block>>.
If(condition, thenBranch, elseBranch, line) ==
  [line |-> line, condition |-> condition, type |-> "if",
   thenBranch |-> thenBranch, elseBranch |-> elseBranch]

While(condition, body, line) ==
  [line |-> line, condition |-> condition, type |-> "while", body |-> body]

Iterate(count, body, line) ==
  [line |-> line, count |-> count, type |-> "iterate", body |-> body]

Define(name, body, line) ==
  [name |-> name, line |-> line, type |-> "define", body |-> body]

Program(definitions, statements) ==
  [type |-> "program", definitions |-> definitions,
   execution |-> [type |-> "execution", statements |-> statements]]

BlockFrame(statements) == [type |-> "block", statements |-> statements, index |-> 0]

WhileFrame(condition, body) ==
  [condition |-> condition, type |-> "while", body |-> body, index |-> 0]

IterateFrame(count, body) ==
  [count |-> count, current |-> 0, type |-> "iterate", body |-> body, index |-> 0]

\* new RuntimeError(message, line)
RuntimeError(message, line) == Exception("RuntimeError", message, line)

Push(stack, frame) == Append(stack, frame)

Pop(stack) == SubSeq(stack, 1, Len(stack) - 1)

\* The top frame with one field changed in place.
SetTop(stack, frame) == [stack EXCEPT ![Len(stack)] = frame]

\* ------------------------------------------------------------------------
\* interpreter.ts: Interpreter
\* ------------------------------------------------------------------------

\* new Interpreter(world)
Interpreter_new(world) ==
  [world |-> world,
   ast |-> null,
   customInstructions |-> <<>>,
   running |-> FALSE,
   currentLine |-> 0,
   executionSpeed |-> 500,
   iterationCount |-> 0,
   executionStack |-> <<>>,
   stepInitialized |-> FALSE,
   stepCompleted |-> FALSE,
   onStepCalls |-> 0,
   onCompleteCalls |-> 0,
   onErrorCalls |-> 0,
   lastError |-> <<>>,
   onStepStops |-> FALSE]

RECURSIVE SetDefinitions(_, _, _)
\* load's loop over ast.definitions, from index i.
SetDefinitions(table, definitions, i) ==
  IF i > Len(definitions) THEN table
  ELSE SetDefinitions(MapSet(table, toLowerCase(definitions[i].name), definitions[i].body),
                      definitions, i + 1)

\* load that does not clear the table of the previous program.
load_keepsTable(s, parsed) ==
  [s EXCEPT !.ast = parsed.ast,
            !.customInstructions =
               IF parsed.ast.type # "null"
               THEN SetDefinitions(@, parsed.ast.definitions, 1)
               ELSE @]

\* Interpreter.load, given what parser.parse(source) returned; the
\* diagnostics it returns are parsed.diagnostics.
load(s, parsed) ==
  [s EXCEPT !.ast = parsed.ast,
            !.customInstructions =
               IF parsed.ast.type # "null"
               THEN SetDefinitions(<<>>, parsed.ast.definitions, 1)
               ELSE <<>>]

\* The callbacks: each delivery is counted.
onStep(s, line) ==
  [s EXCEPT !.onStepCalls = @ + 1,
            !.running = IF s.onStepStops THEN FALSE ELSE @]

onComplete(s) == [s EXCEPT !.onCompleteCalls = @ + 1]

onError(s, e) == [s EXCEPT !.onErrorCalls = @ + 1, !.lastError = <<e>>]

\* Interpreter.initializeStepMode, called with a program loaded.
initializeStepMode(s) ==
  [s EXCEPT !.executionStack = <<BlockFrame(s.ast.execution.statements)>>,
            !.stepInitialized = TRUE,
            !.stepCompleted = FALSE,
            !.running = TRUE,
            !.iterationCount = 0]

\* A turnoff that leaves the interpreter running.
turnoff_keepsRunning(s) == s

\* case "turnoff": this.running = false
turnoff(s) == [s EXCEPT !.running = FALSE]

\* Interpreter.executeCallSync: the new state and the exception thrown, if any.
executeCallSync(s, node) ==
  LET name == toLowerCase(node.name)
      s1 == onStep([s EXCEPT !.currentLine = node.line], node.line)
      \* catch (e): an Error that is not a RuntimeError is rethrown as one
      Wrap(r) == [thrown |-> IF r.thrown # <<>> /\ r.thrown[1].name # "RuntimeError"
                             THEN <<RuntimeError(r.thrown[1].message, <<node.line>>)>>
                             ELSE r.thrown,
                  state |-> [s1 EXCEPT !.world = r.world]]
  IN CASE name = "move" -> Wrap(World_move(s1.world))
       [] name = "turnleft" -> Wrap(World_turnLeft(s1.world))
       [] name = "pickbeeper" -> Wrap(World_pickBeeper(s1.world))
       [] name = "putbeeper" -> Wrap(World_putBeeper(s1.world))
       [] name = "turnoff" -> [thrown |-> <<>>, state |-> turnoff(s1)]
       [] OTHER ->
            IF MapHas(s1.customInstructions, name)
            THEN [thrown |-> <<>>,
                  state |-> [s1 EXCEPT !.executionStack =
                               Push(@, BlockFrame(MapGetOr(s1.customInstructions, name, null)
                                                    .statements))]]
            ELSE [thrown |-> <<RuntimeError("unknownInstruction", <<node.line>>)>>,
                  state |-> s1]

\* The test of an iterate frame, off by one.
iterateExhausted_offByOne(frame) == frame.current > frame.count

\* The test of an iterate frame: its count is used up.
iterateExhausted(frame) == frame.current >= frame.count

\* The ceiling test, tripping one transition early.
overCeiling_early(count) == count >= maxIterations

\* this.iterationCount > this.maxIterations
overCeiling(count) == count > maxIterations

\* The two pushes of a while frame in the wrong order: the body frame ends
\* beneath the replacement while frame.
whileContinue_bodyBeneath(stack, frame) ==
  Push(Push(Pop(stack), BlockFrame(frame.body.statements)),
       WhileFrame(frame.condition, frame.body))

\* A while frame whose condition holds: it is replaced by a fresh while
\* frame and the body frame is pushed on top of it.
whileContinue(stack, frame) ==
  Push(Push(Pop(stack), WhileFrame(frame.condition, frame.body)),
       BlockFrame(frame.body.statements))

\* An if statement that leaves the else branch to run after the then branch.
ifFrames_elseAfter(stack, ifNode, condition) ==
  IF condition
  THEN IF ifNode.elseBranch # <<>>
       THEN Push(Push(stack, BlockFrame(ifNode.elseBranch[1].statements)),
                 BlockFrame(ifNode.thenBranch.statements))
       ELSE Push(stack, BlockFrame(ifNode.thenBranch.statements))
  ELSE IF ifNode.elseBranch # <<>>
       THEN Push(stack, BlockFrame(ifNode.elseBranch[1].statements))
       ELSE stack

\* An if statement, its condition evaluated: the frame of the branch taken
\* is pushed, or none.
ifFrames(stack, ifNode, condition) ==
  IF condition
  THEN Push(stack, BlockFrame(ifNode.thenBranch.statements))
  ELSE IF ifNode.elseBranch # <<>>
       THEN Push(stack, BlockFrame(ifNode.elseBranch[1].statements))
       ELSE stack

\* executeOneStep after executeCallSync: an exception passes through, and
\* the boolean returned is this.running.
afterCall(r) ==
  IF r.thrown # <<>> THEN [ret |-> FALSE, thrown |-> r.thrown, state |-> r.state]
  ELSE IF ~r.state.running
       THEN [ret |-> FALSE, thrown |-> <<>>, state |-> r.state]
       ELSE [ret |-> TRUE, thrown |-> <<>>, state |-> r.state]

RECURSIVE executeOneStep(_)
\* One turn of the loop of executeOneStep, on the frame on top of the stack:
\* the turn returns, throws, or goes on to the next turn.
executeFrame(s) ==
  IF Len(s.executionStack) = 0
  THEN [ret |-> FALSE, thrown |-> <<>>, state |-> s]
  ELSE
    LET frame == s.executionStack[Len(s.executionStack)]
        s1 == [s EXCEPT !.iterationCount = @ + 1]
    IN
    IF overCeiling(s1.iterationCount)
    THEN [ret |-> FALSE, thrown |-> <<RuntimeError("maxIterationsReached", <<>>)>>,
          state |-> s1]
    ELSE IF frame.type = "block"
    THEN
      IF frame.index >= Len(frame.statements)
      THEN executeOneStep([s1 EXCEPT !.executionStack = Pop(@)])
      ELSE
        \* statements[frame.index], 0-based, then frame.index++
        LET statement == frame.statements[frame.index + 1]
            s2 == [s1 EXCEPT !.executionStack =
                      SetTop(@, [frame EXCEPT !.index = @ + 1])]
        IN
        IF statement.type = "call"
        THEN afterCall(executeCallSync(s2, statement))
        ELSE IF statement.type = "if"
        THEN LET c == evaluateCondition(s2.world, statement.condition) IN
             IF c.thrown # <<>> THEN [ret |-> FALSE, thrown |-> c.thrown, state |-> s2]
             ELSE executeOneStep([s2 EXCEPT !.executionStack =
                                    ifFrames(@, statement, c.ret)])
        ELSE IF statement.type = "while"
        THEN executeOneStep([s2 EXCEPT !.executionStack =
                               Push(@, WhileFrame(statement.condition, statement.body))])
        ELSE IF statement.type = "iterate"
        THEN IF statement.count > 0
             THEN executeOneStep([s2 EXCEPT !.executionStack =
                                    Push(@, IterateFrame(statement.count, statement.body))])
             ELSE executeOneStep(s2)
        ELSE IF statement.type = "block"
        THEN executeOneStep([s2 EXCEPT !.executionStack =
                               Push(@, BlockFrame(statement.statements))])
        ELSE executeOneStep(s2)
    ELSE IF frame.type = "while"
    THEN LET c == evaluateCondition(s1.world, frame.condition) IN
         IF c.thrown # <<>> THEN [ret |-> FALSE, thrown |-> c.thrown, state |-> s1]
         ELSE IF ~c.ret
              THEN executeOneStep([s1 EXCEPT !.executionStack = Pop(@)])
              ELSE executeOneStep([s1 EXCEPT !.executionStack = whileContinue(@, frame)])
    ELSE IF frame.type = "iterate"
    THEN IF iterateExhausted(frame)
         THEN executeOneStep([s1 EXCEPT !.executionStack = Pop(@)])
         ELSE executeOneStep(
                [s1 EXCEPT !.executionStack =
                   Push(SetTop(@, [frame EXCEPT !.current = @ + 1]),
                        BlockFrame(frame.body.statements))])
    ELSE executeOneStep(s1)

\* Interpreter.executeOneStep: the new state, the boolean returned and the
\* exception thrown, if any. Each turn of its loop works on the Interpreter
\* as the turn before left it.
executeOneStep(s) == CHOOSE r \in {executeFrame(x) : x \in {s}} : TRUE

\* A catch block that delivers the error and forgets to mark the run completed.
Catch_notCompleted(r) ==
  IF r.thrown[1].name = "RuntimeError"
  THEN [thrown |-> <<>>, state |-> onError(r.state, r.thrown[1])]
  ELSE [thrown |-> r.thrown, state |-> r.state]

\* The try/catch around executeOneStep that step() and run() share: the run
\* is marked completed on an exception; a RuntimeError goes to onError, any
\* other exception is rethrown to the caller.
Catch(r) ==
  LET s1 == [r.state EXCEPT !.stepCompleted = TRUE] IN
  IF r.thrown[1].name = "RuntimeError"
  THEN [thrown |-> <<>>, state |-> onError(s1, r.thrown[1])]
  ELSE [thrown |-> r.thrown, state |-> s1]

\* step()'s own initialization with the cursor past the first statement.
stepInitialize_cursorOne(s) ==
  [s EXCEPT !.executionStack =
               <<[BlockFrame(s.ast.execution.statements) EXCEPT !.index = 1]>>,
            !.stepInitialized = TRUE,
            !.stepCompleted = FALSE,
            !.running = TRUE,
            !.iterationCount = 0]

\* The frame stack step() builds on its first call.
stepInitialize(s) ==
  [s EXCEPT !.executionStack = <<BlockFrame(s.ast.execution.statements)>>,
            !.stepInitialized = TRUE,
            !.stepCompleted = FALSE,
            !.running = TRUE,
            !.iterationCount = 0]

\* step() after executeOneStep: its catch block, the completion of the
\* program, or one more step to go.
stepTurn(r) ==
  IF r.thrown # <<>>
  THEN LET c == Catch(r) IN
       [ret |-> IF c.thrown = <<>> THEN <<FALSE>> ELSE <<>>, thrown |-> c.thrown,
        state |-> c.state]
  ELSE IF ~r.ret
       THEN [ret |-> <<FALSE>>,
             thrown |-> <<>>, state |-> onComplete([r.state EXCEPT !.stepCompleted = TRUE])]
       ELSE [ret |-> <<TRUE>>, thrown |-> <<>>, state |-> r.state]

\* A step() that starts the count of frame transitions afresh at each call.
step_freshCount(s) ==
  IF s.ast.type = "null"
  THEN [ret |-> <<>>, thrown |-> <<RuntimeError("programNotLoaded", <<>>)>>, state |-> s]
  ELSE
    LET s1 == IF ~s.stepInitialized THEN stepInitialize(s) ELSE s
    IN
    IF s1.stepCompleted
    THEN [ret |-> <<FALSE>>, thrown |-> <<>>, state |-> s1]
    ELSE
      stepTurn(executeOneStep([s1 EXCEPT !.running = TRUE, !.iterationCount = 0]))

\* A step() that marks the run completed when no program is loaded.
step_completesUnloaded(s) ==
  IF s.ast.type = "null"
  THEN [ret |-> <<>>, thrown |-> <<RuntimeError("programNotLoaded", <<>>)>>,
        state |-> [s EXCEPT !.stepCompleted = TRUE]]
  ELSE
    LET s1 == IF ~s.stepInitialized THEN stepInitialize(s) ELSE s
    IN
    IF s1.stepCompleted
    THEN [ret |-> <<FALSE>>, thrown |-> <<>>, state |-> s1]
    ELSE
      stepTurn(executeOneStep(IF ~s1.running THEN [s1 EXCEPT !.running = TRUE] ELSE s1))

\* Interpreter.step: the new state, the boolean returned and the exception
\* thrown to the caller, if any.
step(s) ==
  IF s.ast.type = "null"
  THEN [ret |-> <<>>, thrown |-> <<RuntimeError("programNotLoaded", <<>>)>>, state |-> s]
  ELSE
    LET s1 == IF ~s.stepInitialized THEN stepInitialize(s) ELSE s
    IN
    IF s1.stepCompleted
    THEN [ret |-> <<FALSE>>, thrown |-> <<>>, state |-> s1]
    ELSE
      stepTurn(executeOneStep(IF ~s1.running THEN [s1 EXCEPT !.running = TRUE] ELSE s1))

\* run() after executeOneStep: its catch block, the completion of the
\* program, or the delay before the next turn.
runTurn(r) ==
  IF r.thrown # <<>>
  THEN LET c == Catch(r) IN [thrown |-> c.thrown, state |-> c.state, pc |-> "idle"]
  ELSE IF ~r.ret
       THEN [thrown |-> <<>>,
             state |-> onComplete([r.state EXCEPT !.stepCompleted = TRUE]), pc |-> "idle"]
       ELSE [thrown |-> <<>>, state |-> r.state, pc |-> "delay"]

\* A loop of run() that does not look at the stop flag.
runLoop_ignoresStop(s) ==
  IF ~s.stepCompleted
  THEN runTurn(executeOneStep(s))
  ELSE [thrown |-> <<>>, state |-> s, pc |-> "idle"]

\* One turn of run()'s while loop, from the test of its condition to the
\* next await (pc "delay") or to the end of run() (pc "idle").
runLoop(s) ==
  IF s.running /\ ~s.stepCompleted
  THEN runTurn(executeOneStep(s))
  ELSE [thrown |-> <<>>, state |-> s, pc |-> "idle"]

\* Interpreter.run up to its first await or its end.
run(s) ==
  IF s.ast.type = "null"
  THEN [thrown |-> <<RuntimeError("programNotLoaded", <<>>)>>, state |-> s, pc |-> "idle"]
  ELSE runLoop(IF ~s.stepInitialized THEN initializeStepMode(s) ELSE s)

\* stop that also marks the run completed.
stop_completes(s) == [s EXCEPT !.running = FALSE, !.stepCompleted = TRUE]

\* Interpreter.stop
stop(s) == [s EXCEPT !.running = FALSE]

\* reset that leaves the interpreter running.
Interpreter_reset_keepsRunning(s) ==
  [s EXCEPT !.world = World_reset(s.world),
            !.currentLine = 0,
            !.iterationCount = 0,
            !.executionStack = <<>>,
            !.stepInitialized = FALSE,
            !.stepCompleted = FALSE,
            !.onStepCalls = 0,
            !.onCompleteCalls = 0,
            !.onErrorCalls = 0,
            !.lastError = <<>>]

\* reset that keeps the frame stack and the flags of the run.
Interpreter_reset_keepsStack(s) ==
  [s EXCEPT !.world = World_reset(s.world),
            !.running = FALSE,
            !.currentLine = 0,
            !.iterationCount = 0,
            !.onStepCalls = 0,
            !.onCompleteCalls = 0,
            !.onErrorCalls = 0,
            !.lastError = <<>>]

\* Interpreter.reset; the notification counts start again with it.
Interpreter_reset(s) ==
  [s EXCEPT !.world = World_reset(s.world),
            !.running = FALSE,
            !.currentLine = 0,
            !.iterationCount = 0,
            !.executionStack = <<>>,
            !.stepInitialized = FALSE,
            !.stepCompleted = FALSE,
            !.onStepCalls = 0,
            !.onCompleteCalls = 0,
            !.onErrorCalls = 0,
            !.lastError = <<>>]

Max(a, b) == IF a >= b THEN a ELSE b

Min(a, b) == IF a <= b THEN a ELSE b

\* setSpeed without the lower limit.
setSpeed_noFloor(s, ms) == [s EXCEPT !.executionSpeed = Min(2000, ms)]

\* Interpreter.setSpeed: Math.max(50, Math.min(2000, ms))
setSpeed(s, ms) == [s EXCEPT !.executionSpeed = Max(50, Min(2000, ms))]

\* Interpreter.delay: the duration handed to setTimeout.
delay(s) == s.executionSpeed

\* ------------------------------------------------------------------------
\* Inputs: world descriptions and parsed programs
\* ------------------------------------------------------------------------

Pos(x, y) == [x |-> x, y |-> y]

\* A corridor one cell wide and four cells long; the bag count is absent.
MapCorridor ==
  [karel |-> [x |-> 1, y |-> 1, facing |-> "north", beepers |-> <<>>],
   beepers |-> <<>>,
   walls |-> <<>>,
   dimensions |-> [width |-> 1, height |-> 4]]

\* The 3x3 empty world of the scenarios.
MapOpen ==
  [karel |-> [x |-> 1, y |-> 1, facing |-> "North", beepers |-> <<0>>],
   beepers |-> <<>>,
   walls |-> <<>>,
   dimensions |-> [width |-> 3, height |-> 3]]

\* A wall between (1,1) and (1,2), given north-to-south, and a wall between
\* (1,1) and (2,1) given twice, once in each order.
MapWall ==
  [karel |-> [x |-> 1, y |-> 1, facing |-> "N", beepers |-> <<1>>],
   beepers |-> <<[x |-> 1, y |-> 1, count |-> 2]>>,
   walls |-> <<[from |-> Pos(1, 2), to |-> Pos(1, 1)],
               [from |-> Pos(1, 1), to |-> Pos(2, 1)],
               [from |-> Pos(2, 1), to |-> Pos(1, 1)]>>,
   dimensions |-> [width |-> 2, height |-> 2]]

\* Beepers on two cells and in the bag, one wall on the east side.
MapBeepers ==
  [karel |-> [x |-> 2, y |-> 1, facing |-> "EAST", beepers |-> <<2>>],
   beepers |-> <<[x |-> 2, y |-> 1, count |-> 1], [x |-> 1, y |-> 2, count |-> 1]>>,
   walls |-> <<[from |-> Pos(2, 2), to |-> Pos(2, 1)]>>,
   dimensions |-> [width |-> 2, height |-> 2]]

Maps == {MapCorridor, MapOpen, MapWall, MapBeepers}

\* The 2x2 world with the walls given.
MapOfWalls(list) ==
  [karel |-> [x |-> 1, y |-> 1, facing |-> "north", beepers |-> <<0>>],
   beepers |-> <<>>,
   walls |-> list,
   dimensions |-> [width |-> 2, height |-> 2]]

\* Descriptions some of which hold a wall between cells that are not
\* neighbours: a diagonal, a cell with itself, two cells two apart, and one
\* that comes after a valid wall.
WallMaps ==
  Maps \cup
  {MapOfWalls(<<[from |-> Pos(1, 1), to |-> Pos(2, 2)]>>),
   MapOfWalls(<<[from |-> Pos(2, 1), to |-> Pos(2, 1)]>>),
   MapOfWalls(<<[from |-> Pos(1, 1), to |-> Pos(3, 1)]>>),
   MapOfWalls(<<[from |-> Pos(1, 2), to |-> Pos(2, 2)],
                [from |-> Pos(2, 2), to |-> Pos(1, 1)]>>),
   MapOfWalls(<<[from |-> Pos(2, 2), to |-> Pos(1, 2)],
                [from |-> Pos(1, 2), to |-> Pos(2, 2)],
                [from |-> Pos(2, 1), to |-> Pos(2, 0)]>>)}

Diag(message, line) == [message |-> message, line |-> line, severity |-> "error"]

Parsed(ast, diagnostics) == [ast |-> ast, diagnostics |-> diagnostics]

\* move; turnoff
ProgMove == Parsed(Program(<<>>, <<Call("move", 3), Call("turnoff", 4)>>), <<>>)

\* DEFINE-NEW-INSTRUCTION turnright AS three turnleft; TURNRIGHT; turnoff
ProgTurnRight ==
  Parsed(Program(<<Define("turnright",
                          Block(<<Call("turnleft", 3), Call("TurnLeft", 4),
                                  Call("turnleft", 5)>>), 2)>>,
                 <<Call("TURNRIGHT", 8), Call("turnoff", 9)>>), <<>>)

\* ITERATE n TIMES BEGIN <name> END; turnoff
ProgIterate(n, name) ==
  Parsed(Program(<<>>, <<Iterate(n, Block(<<Call(name, 4)>>), 3), Call("turnoff", 6)>>),
         <<>>)

\* WHILE front-is-clear DO BEGIN move END; turnoff
ProgWhile ==
  Parsed(Program(<<>>, <<While("Front-Is-Clear", Block(<<Call("move", 4)>>), 3),
                         Call("turnoff", 6)>>), <<>>)

\* DEFINE-NEW-INSTRUCTION spin AS BEGIN turnleft; spin END; spin; turnoff
ProgSpin ==
  Parsed(Program(<<Define("spin", Block(<<Call("turnleft", 3), Call("spin", 4)>>), 2)>>,
                 <<Call("spin", 7), Call("turnoff", 8)>>), <<>>)

\* WHILE not-facing-south DO BEGIN END; turnoff
ProgIdle ==
  Parsed(Program(<<>>, <<While("not-facing-south", Block(<<>>), 3), Call("turnoff", 5)>>),
         <<>>)

\* putbeeper; putbeeper; pickbeeper four times; turnoff
ProgBeepers ==
  Parsed(Program(<<>>, <<Call("putbeeper", 3), Call("putbeeper", 4),
                         Call("pickbeeper", 5), Call("pickbeeper", 6),
                         Call("pickbeeper", 7), Call("pickbeeper", 8),
                         Call("TurnOff", 9)>>), <<>>)

\* IF next-to-a-beeper THEN pickbeeper ELSE putbeeper;
\* IF front-is-clear THEN move; BEGIN turnleft END; turnoff
ProgIf ==
  Parsed(Program(<<>>,
                 <<If("next-to-a-beeper", Block(<<Call("pickbeeper", 4)>>),
                      <<Block(<<Call("putbeeper", 6)>>)>>, 3),
                   If("front-is-clear", Block(<<Call("move", 9)>>), <<>>, 8),
                   Block(<<Call("turnleft", 12)>>),
                   Call("turnoff", 14)>>), <<>>)

\* move; fly; turnoff: fly is unknown, reported by the parser, the AST is kept
ProgUnknown ==
  Parsed(Program(<<>>, <<Call("move", 3), Call("fly", 4), Call("turnoff", 5)>>),
         <<Diag("unknownInstruction", 4)>>)

\* turnleft, with no turnoff: reported by the parser, the AST is kept
ProgNoTurnoff ==
  Parsed(Program(<<>>, <<Call("turnleft", 3)>>), <<Diag("missingTurnoff", 3)>>)

\* DEFINE-NEW-INSTRUCTION halt AS BEGIN turnleft; turnoff; move END;
\* ITERATE 2 TIMES BEGIN halt END; move; turnoff
ProgHalt ==
  Parsed(Program(<<Define("halt", Block(<<Call("turnleft", 3), Call("turnoff", 4),
                                          Call("move", 5)>>), 2)>>,
                 <<Iterate(2, Block(<<Call("halt", 9)>>), 8), Call("move", 11),
                   Call("turnoff", 12)>>), <<>>)

\* WHILE not-facing-south DO BEGIN turnleft; turnleft END; turnoff
ProgWhileTwo ==
  Parsed(Program(<<>>, <<While("not-facing-south",
                               Block(<<Call("turnleft", 4), Call("turnleft", 5)>>), 3),
                         Call("turnoff", 7)>>), <<>>)

\* DEFINE-NEW-INSTRUCTION TurnRight AS three turnleft; turnright; turnoff
ProgMixedCase ==
  Parsed(Program(<<Define("TurnRight",
                          Block(<<Call("turnleft", 3), Call("turnleft", 4),
                                  Call("turnleft", 5)>>), 2)>>,
                 <<Call("turnright", 8), Call("turnoff", 9)>>), <<>>)

\* A source with a structural error: no AST.
ProgFatal == Parsed(null, <<Diag("missingProgramStart", 1)>>)

Programs ==
  {ProgMove, ProgTurnRight, ProgWhile, ProgSpin, ProgIdle, ProgBeepers, ProgIf,
   ProgUnknown, ProgNoTurnoff, ProgHalt, ProgWhileTwo, ProgMixedCase, ProgFatal}
  \cup {ProgIterate(n, name) : n \in 0..MaxCount, name \in {"turnleft", "move"}}

\* ------------------------------------------------------------------------
\* interpreter.ts: Lexer
\* ------------------------------------------------------------------------

\* A text is the sequence of its lines (source.split("\n")) and a line the
\* sequence of its pieces: a tab, a space, a semicolon, the comment marker,
\* or a run of other characters.  A string made of several pieces is their
\* concatenation.

\* String.prototype.toUpperCase on the pieces that occur in the model.
toUpperCase(s) ==
  CASE s = "move" -> "MOVE"
    [] s = "Move" -> "MOVE"
    [] s = "turnleft" -> "TURNLEFT"
    [] s = "TurnLeft" -> "TURNLEFT"
    [] s = "pickbeeper" -> "PICKBEEPER"
    [] s = "putbeeper" -> "PUTBEEPER"
    [] s = "turnoff" -> "TURNOFF"
    [] s = "TurnOff" -> "TURNOFF"
    [] s = "turnright" -> "TURNRIGHT"
    [] s = "TurnRight" -> "TURNRIGHT"
    [] s = "fly" -> "FLY"
    [] s = "turnaround" -> "TURNAROUND"
    [] s = "back" -> "BACK"
    [] s = "begin" -> "BEGIN"
    [] s = "End" -> "END"
    [] s = "iterate" -> "ITERATE"
    [] s = "front-is-clear" -> "FRONT-IS-CLEAR"
    [] s = "Front-Is-Clear" -> "FRONT-IS-CLEAR"
    [] s = "next-to-a-beeper" -> "NEXT-TO-A-BEEPER"
    [] s = "not-facing-south" -> "NOT-FACING-SOUTH"
    [] s = "facing-up" -> "FACING-UP"
    [] OTHER -> s

\* The keyword and built-in table of addToken: upper-case word, token type.
Keywords ==
  <<<<"BEGINNING-OF-PROGRAM", "BEGINNING-OF-PROGRAM">>,
    <<"END-OF-PROGRAM", "END-OF-PROGRAM">>,
    <<"BEGINNING-OF-EXECUTION", "BEGINNING-OF-EXECUTION">>,
    <<"END-OF-EXECUTION", "END-OF-EXECUTION">>,
    <<"BEGIN", "BEGIN">>,
    <<"END", "END">>,
    <<"IF", "IF">>,
    <<"THEN", "THEN">>,
    <<"ELSE", "ELSE">>,
    <<"WHILE", "WHILE">>,
    <<"DO", "DO">>,
    <<"ITERATE", "ITERATE">>,
    <<"TIMES", "TIMES">>,
    <<"DEFINE-NEW-INSTRUCTION", "DEFINE-NEW-INSTRUCTION">>,
    <<"AS", "AS">>,
    <<"MOVE", "move">>,
    <<"TURNLEFT", "turnleft">>,
    <<"PICKBEEPER", "pickbeeper">>,
    <<"PUTBEEPER", "putbeeper">>,
    <<"TURNOFF", "turnoff">>>>

\* The pieces of text made of decimal digits only.
DigitPieces == {"0", "1", "2", "3", "03"}

\* /^\d+$/.test(word)
isNumeric(word) == word # <<>> /\ \A i \in 1..Len(word) : word[i] \in DigitPieces

\* The decimal digits, in order of their value.
DecimalDigits == <<"0", "1", "2", "3", "4", "5", "6", "7", "8", "9">>

RECURSIVE parseDigits(_, _)
\* The number the first n characters of a string of digits write.
parseDigits(value, n) ==
  IF n = 0 THEN 0
  ELSE parseDigits(value, n - 1) * 10
         + (CHOOSE d \in 0..9 : DecimalDigits[d + 1] = SubSeq(value, n, n))

\* parseInt(value, 10) of a string of digits
parseInt(value) == parseDigits(value, Len(value))

\* A condition table with a name evaluateCondition does not know.
VALID_CONDITIONS_facingUp == WorldConditions \cup {"facing-up"}

\* const VALID_CONDITIONS = new Set([...])
VALID_CONDITIONS ==
  {"front-is-clear", "front-is-blocked", "left-is-clear", "left-is-blocked",
   "right-is-clear", "right-is-blocked", "next-to-a-beeper", "not-next-to-a-beeper",
   "facing-north", "not-facing-north", "facing-south", "not-facing-south",
   "facing-east", "not-facing-east", "facing-west", "not-facing-west",
   "beeper-in-bag"}

BUILT_IN_INSTRUCTIONS == {"move", "turnleft", "pickbeeper", "putbeeper", "turnoff"}

Token(type, value, line, indent) ==
  [value |-> value, line |-> line, type |-> type, indent |-> indent]

RECURSIVE Join(_)
\* The string made of the pieces.
Join(pieces) == IF pieces = <<>> THEN "" ELSE Head(pieces) \o Join(Tail(pieces))

\* The pieces, each through f.
Each(f(_), pieces) == [i \in 1..Len(pieces) |-> f(pieces[i])]

isSpace(piece) == piece \in {" ", "\t"}

RECURSIVE leadingTabs(_)
\* The number of tabs the line starts with.
leadingTabs(line) ==
  IF line # <<>> /\ Head(line) = "\t" THEN 1 + leadingTabs(Tail(line)) ELSE 0

RECURSIVE trimStart(_)
trimStart(pieces) ==
  IF pieces # <<>> /\ isSpace(Head(pieces)) THEN trimStart(Tail(pieces)) ELSE pieces

RECURSIVE trimEnd(_)
trimEnd(pieces) ==
  IF pieces # <<>> /\ isSpace(pieces[Len(pieces)])
  THEN trimEnd(SubSeq(pieces, 1, Len(pieces) - 1))
  ELSE pieces

\* String.prototype.trim
trim(pieces) == trimEnd(trimStart(pieces))

RECURSIVE split(_, _, _)
\* content.split(/\s+/) of a trimmed, non-empty content: the words, each
\* the sequence of its pieces; word is the one being read.
split(content, words, word) ==
  IF content = <<>> THEN Append(words, word)
  ELSE IF isSpace(Head(content))
       THEN split(trimStart(content), Append(words, word), <<>>)
       ELSE split(Tail(content), words, Append(word, Head(content)))

\* The classification without the upper-casing of the word.
wordType_caseSensitive(word) ==
  IF MapHas(Keywords, Join(word))
  THEN MapGetOr(Keywords, Join(word), "")
  ELSE IF isNumeric(word) THEN "NUMBER"
       ELSE IF Join(Each(toLowerCase, word)) \in VALID_CONDITIONS THEN "CONDITION"
            ELSE "IDENTIFIER"

\* The classification of addToken: the type of the token.
wordType(word) ==
  IF MapHas(Keywords, Join(Each(toUpperCase, word)))
  THEN MapGetOr(Keywords, Join(Each(toUpperCase, word)), "")
  ELSE IF isNumeric(word) THEN "NUMBER"
       ELSE IF Join(Each(toLowerCase, word)) \in VALID_CONDITIONS THEN "CONDITION"
            ELSE "IDENTIFIER"

\* Lexer.addToken: the token pushed.
addToken(word, indent, currentLine) ==
  Token(wordType(word), Join(word), currentLine + 1, indent)

\* The body of the loop of tokenizeLine for one word: the tokens pushed.
tokenizeWord(word, indent, currentLine) ==
  IF word[Len(word)] = ";"
  THEN (IF Len(word) > 1
        THEN <<addToken(SubSeq(word, 1, Len(word) - 1), indent, currentLine)>>
        ELSE <<>>)
       \o <<Token("SEMICOLON", ";", currentLine + 1, indent)>>
  ELSE <<addToken(word, indent, currentLine)>>

RECURSIVE tokenizeWords(_, _, _, _)
\* The loop of tokenizeLine over the words, from index wordIdx (from 0):
\* the tokens pushed.
tokenizeWords(words, wordIdx, indent, currentLine) ==
  IF wordIdx >= Len(words) THEN <<>>
  ELSE tokenizeWord(words[wordIdx + 1], indent, currentLine)
       \o tokenizeWords(words, wordIdx + 1, indent, currentLine)

\* line.slice(i).trim(), i past the leading tabs
lineContent(line) == trim(SubSeq(line, leadingTabs(line) + 1, Len(line)))

\* Lexer.tokenizeLine: the tokens pushed.
tokenizeLine(line, currentLine) ==
  IF lineContent(line) = <<>> \/ Head(lineContent(line)) = "//"
  THEN <<>>
  ELSE tokenizeWords(split(lineContent(line), <<>>, <<>>), 0, leadingTabs(line),
                     currentLine)

RECURSIVE tokenizeLines(_, _)
\* The loop of tokenize over the lines, from line currentLine (from 0): the
\* tokens pushed.
tokenizeLines(lines, currentLine) ==
  IF currentLine >= Len(lines) THEN <<>>
  ELSE tokenizeLine(lines[currentLine + 1], currentLine)
       \o tokenizeLines(lines, currentLine + 1)

\* Lexer.tokenize
tokenize(lines) == Append(tokenizeLines(lines, 0), Token("EOF", "", Len(lines), 0))

\* ------------------------------------------------------------------------
\* interpreter.ts: Parser
\* ------------------------------------------------------------------------

\* A parser state p is the record of the Parser's fields; current counts
\* from 0 as in the source.  What a parse method leaves is the node it
\* returned, or the ParseError it threw, and the parser state.

\* new ParseError(message, line)
ParseError(message, line) == Exception("ParseError", message, <<line>>)

Parser_new(tokens) ==
  [current |-> 0, customInstructions |-> <<>>, diagnostics |-> <<>>, tokens |-> tokens]

Parsing(node, p) == [thrown |-> <<>>, node |-> node, parser |-> p]

peek(p) == p.tokens[p.current + 1]

check(p, type) == peek(p).type = type

isAtEnd(p) == peek(p).type = "EOF"

\* Parser.advance: the parser state it leaves; the token it returns is
\* the one before the cursor.
advance(p) == IF ~isAtEnd(p) THEN [p EXCEPT !.current = @ + 1] ELSE p

\* throw new ParseError(message, this.peek().line)
Throw(message, p) ==
  [thrown |-> <<ParseError(message, peek(p).line)>>, node |-> null, parser |-> p]

\* this.diagnostics.push({message, line, severity: "error"})
pushDiagnostic(p, message, line) ==
  [p EXCEPT !.diagnostics = Append(@, Diag(message, line))]

\* The test of parseInstructionCall on the name as it is written.
isKnown_caseSensitive(p, name) ==
  \/ name \in BUILT_IN_INSTRUCTIONS
  \/ SetHas(p.customInstructions, name)

\* The test of parseInstructionCall on the instruction name.
isKnown(p, name) ==
  \/ toLowerCase(name) \in BUILT_IN_INSTRUCTIONS
  \/ SetHas(p.customInstructions, toLowerCase(name))

\* The test of parseInstructionCall that lets a semicolon be absent, without
\* its ELSE.
endsStatement_noElse(p) ==
  check(p, "SEMICOLON") \/ check(p, "END") \/ check(p, "END-OF-EXECUTION")

\* The test of parseInstructionCall that lets a semicolon be absent.
endsStatement(p) ==
  \/ check(p, "SEMICOLON") \/ check(p, "END") \/ check(p, "ELSE")
  \/ check(p, "END-OF-EXECUTION")

\* The second half of parseInstructionCall, the name validated.
expectSemicolon(p, token) ==
  Parsing(Call(token.value, token.line),
          IF ~endsStatement(p) THEN pushDiagnostic(p, "missingSemicolon", token.line)
          ELSE IF check(p, "SEMICOLON") THEN advance(p)
               ELSE p)

\* Parser.parseInstructionCall
parseInstructionCall(p) ==
  expectSemicolon(IF ~isKnown(p, peek(p).value)
                  THEN pushDiagnostic(advance(p), "unknownInstruction", peek(p).line)
                  ELSE advance(p),
                  peek(p))

RECURSIVE parseStatement(_)
RECURSIVE parseStatements(_, _, _)
RECURSIVE parseBlock(_)

\* statements.push(this.parseStatement()), and the loop goes on.
pushStatement(r, statements, end) ==
  IF r.thrown # <<>> THEN r
  ELSE parseStatements(r.parser, Append(statements, r.node), end)

\* while (!check(end) && !check(EOF)) statements.push(this.parseStatement())
parseStatements(p, statements, end) ==
  IF check(p, end) \/ check(p, "EOF") THEN Parsing(statements, p)
  ELSE pushStatement(parseStatement(p), statements, end)

\* The end of parseBlock, the statements parsed.
expectEnd(r) ==
  IF r.thrown # <<>> THEN r
  ELSE IF ~check(r.parser, "END") THEN Throw("unmatchedBegin", r.parser)
       ELSE Parsing(Block(r.node), advance(r.parser))

\* Parser.parseBlock
parseBlock(p) ==
  IF ~check(p, "BEGIN") THEN Throw("Expected BEGIN", p)
  ELSE expectEnd(parseStatements(advance(p), <<>>, "END"))

\* The end of parseIf with an ELSE, the else branch parsed.
ifElse(r, condition, thenBranch, line) ==
  IF r.thrown # <<>> THEN r
  ELSE Parsing(If(condition, thenBranch, <<r.node>>, line), r.parser)

\* The end of parseIf, the then branch parsed.
ifThen(r, condition, line) ==
  IF r.thrown # <<>> THEN r
  ELSE IF check(r.parser, "ELSE")
       THEN ifElse(parseBlock(advance(r.parser)), condition, r.node, line)
       ELSE Parsing(If(condition, r.node, <<>>, line), r.parser)

\* A parseIf that takes whatever follows IF as the condition.
parseIf_anyCondition(p) ==
  IF ~check(advance(advance(p)), "THEN")
  THEN Throw("Expected THEN after condition", advance(advance(p)))
  ELSE ifThen(parseBlock(advance(advance(advance(p)))),
              peek(advance(p)).value, peek(p).line)

\* Parser.parseIf
parseIf(p) ==
  IF ~check(advance(p), "CONDITION") THEN Throw("unknownCondition", advance(p))
  ELSE IF ~check(advance(advance(p)), "THEN")
       THEN Throw("Expected THEN after condition", advance(advance(p)))
       ELSE ifThen(parseBlock(advance(advance(advance(p)))),
                   peek(advance(p)).value, peek(p).line)

\* The end of parseWhile, the body parsed.
whileBody(r, condition, line) ==
  IF r.thrown # <<>> THEN r ELSE Parsing(While(condition, r.node, line), r.parser)

\* Parser.parseWhile
parseWhile(p) ==
  IF ~check(advance(p), "CONDITION") THEN Throw("unknownCondition", advance(p))
  ELSE IF ~check(advance(advance(p)), "DO")
       THEN Throw("Expected DO after condition", advance(advance(p)))
       ELSE whileBody(parseBlock(advance(advance(advance(p)))),
                      peek(advance(p)).value, peek(p).line)

\* The end of parseIterate, the body parsed.
iterateBody(r, count, line) ==
  IF r.thrown # <<>> THEN r ELSE Parsing(Iterate(count, r.node, line), r.parser)

\* Parser.parseIterate
parseIterate(p) ==
  IF ~check(advance(p), "NUMBER") THEN Throw("invalidIterateCount", advance(p))
  ELSE IF ~check(advance(advance(p)), "TIMES")
       THEN Throw("Expected TIMES after number", advance(advance(p)))
       ELSE iterateBody(parseBlock(advance(advance(advance(p)))),
                        parseInt(peek(advance(p)).value), peek(p).line)

\* Parser.parseStatement
parseStatement(p) ==
  CASE check(p, "IF") -> parseIf(p)
    [] check(p, "WHILE") -> parseWhile(p)
    [] check(p, "ITERATE") -> parseIterate(p)
    [] check(p, "BEGIN") -> parseBlock(p)
    [] OTHER -> parseInstructionCall(p)

\* The end of parseDefineInstruction, the body parsed.
defineBody(r, name, line) ==
  IF r.thrown # <<>> THEN r ELSE Parsing(Define(name, r.node, line), r.parser)

\* this.customInstructions.add(name.toLowerCase())
register(p, name) ==
  [p EXCEPT !.customInstructions = SetAdd(@, toLowerCase(name))]

\* Parser.parseDefineInstruction
parseDefineInstruction(p) ==
  IF ~check(advance(p), "IDENTIFIER")
  THEN Throw("Expected instruction name after DEFINE-NEW-INSTRUCTION", advance(p))
  ELSE IF ~check(advance(advance(p)), "AS")
       THEN Throw("Expected AS after instruction name",
                  register(advance(advance(p)), peek(advance(p)).value))
       ELSE defineBody(parseBlock(register(advance(advance(advance(p))),
                                           peek(advance(p)).value)),
                       peek(advance(p)).value, peek(p).line)

RECURSIVE parseDefinitions(_, _)
\* definitions.push(this.parseDefineInstruction()), and the loop goes on.
pushDefinition(r, definitions) ==
  IF r.thrown # <<>> THEN r
  ELSE parseDefinitions(r.parser, Append(definitions, r.node))

\* while (check(DEFINE-NEW-INSTRUCTION)) definitions.push(...)
parseDefinitions(p, definitions) ==
  IF ~check(p, "DEFINE-NEW-INSTRUCTION") THEN Parsing(definitions, p)
  ELSE pushDefinition(parseDefineInstruction(p), definitions)

\* The test of parseProgram on the last execution statement, with any
\* call in its place.
endsWithTurnoff_anyCall(statements) ==
  /\ statements # <<>>
  /\ statements[Len(statements)].type = "call"

\* The test of parseProgram on the last execution statement.
endsWithTurnoff(statements) ==
  /\ statements # <<>>
  /\ statements[Len(statements)].type = "call"
  /\ toLowerCase(statements[Len(statements)].name) = "turnoff"

\* The end of parseProgram: the two end markers expected.
expectEnds(p, definitions, statements) ==
  IF ~check(p, "END-OF-EXECUTION") THEN Throw("missingExecutionEnd", p)
  ELSE IF ~check(advance(p), "END-OF-PROGRAM")
       THEN Throw("missingProgramEnd", advance(p))
       ELSE Parsing(Program(definitions, statements), advance(advance(p)))

\* parseProgram from the check for turnoff, the execution statements parsed.
checkTurnoff(r, definitions) ==
  IF r.thrown # <<>> THEN r
  ELSE expectEnds(IF ~endsWithTurnoff(r.node)
                  THEN pushDiagnostic(r.parser, "missingTurnoff", peek(r.parser).line - 1)
                  ELSE r.parser,
                  definitions, r.node)

\* parseProgram from the execution start, the definitions parsed.
expectExecution(r) ==
  IF r.thrown # <<>> THEN r
  ELSE IF ~check(r.parser, "BEGINNING-OF-EXECUTION")
       THEN Throw("missingExecutionStart", r.parser)
       ELSE checkTurnoff(parseStatements(advance(r.parser), <<>>, "END-OF-EXECUTION"),
                         r.node)

\* Parser.parseProgram
parseProgram(p) ==
  IF ~check(p, "BEGINNING-OF-PROGRAM") THEN Throw("missingProgramStart", p)
  ELSE expectExecution(parseDefinitions(advance(p), <<>>))

\* The return of parse, parseProgram done.
parseReturn(r) ==
  IF r.thrown = <<>> THEN Parsed(r.node, r.parser.diagnostics)
  ELSE Parsed(null, Append(r.parser.diagnostics,
                           Diag(r.thrown[1].message, r.thrown[1].line[1])))

\* Parser.parse
parse(lines) == parseReturn(parseProgram(Parser_new(tokenize(lines))))

\* ------------------------------------------------------------------------
\* State
\* ------------------------------------------------------------------------

VARIABLES
  map,                \* the description the World was constructed from
  dimensions,         \* World._dimensions
  karel,              \* World._karel
  beepers,            \* World._beepers
  walls,              \* World._walls
  initialKarel,       \* World._initialKarel
  initialBeepers,     \* World._initialBeepers
  isModified,         \* World._isModified
  ast,                \* Interpreter.ast
  customInstructions, \* Interpreter.customInstructions
  running,            \* Interpreter.running
  currentLine,        \* Interpreter.currentLine
  executionSpeed,     \* Interpreter.executionSpeed
  iterationCount,     \* Interpreter.iterationCount
  executionStack,     \* Interpreter.executionStack
  stepInitialized,    \* Interpreter.stepInitialized
  stepCompleted,      \* Interpreter.stepCompleted
  onStepCalls,        \* deliveries to onStep since construction or reset()
  onCompleteCalls,    \* deliveries to onComplete since construction or reset()
  onErrorCalls,       \* deliveries to onError since construction or reset()
  lastError,          \* the last error delivered to onError, if any
  onStepStops,        \* the handler the host set as onStep calls stop()
  runPc,              \* where the run() invocation is: "idle" or "delay"
  delayMs,            \* the duration of the delay run() is waiting for, if any
  diagnostics,        \* what the last load() returned
  lastCall,           \* the last method called by the host
  lastStepRet,        \* what the last call returned, when it was step()
  thrown,             \* the exception the last call threw to the host, if any
  stepOnly,           \* only step() has been called since construction or reset()
  copy,               \* the World rebuilt from the description just serialized, if any
  sensed,             \* what the last call returned, when it was evaluateCondition()
  source,             \* the text of the document the host edits
  parseResult,        \* what Parser.parse returned for the text, once parsed
  edits               \* the number of edits made to the document

worldVars ==
  <<dimensions, karel, beepers, walls, initialKarel, initialBeepers, isModified>>

interpVars ==
  <<ast, customInstructions, running, currentLine, executionSpeed, iterationCount,
    executionStack,
    stepInitialized, stepCompleted, onStepCalls, onCompleteCalls, onErrorCalls,
    lastError, onStepStops>>

\* The variables of the hosts that sense the World and parse a document.
docVars == <<sensed, source, parseResult, edits>>

hostVars ==
  <<runPc, delayMs, diagnostics, lastCall, lastStepRet, thrown, stepOnly, copy, docVars>>

vars == <<map, worldVars, interpVars, hostVars>>

\* The World object, as a record.
TheWorld ==
  [karel |-> karel, beepers |-> beepers, walls |-> walls, dimensions |-> dimensions,
   initialKarel |-> initialKarel, initialBeepers |-> initialBeepers,
   isModified |-> isModified]

\* The Interpreter object and its World, as a record.
Cur ==
  [world |-> TheWorld, ast |-> ast, customInstructions |-> customInstructions,
   running |-> running, currentLine |-> currentLine,
   executionSpeed |-> executionSpeed, iterationCount |-> iterationCount,
   executionStack |-> executionStack, stepInitialized |-> stepInitialized,
   stepCompleted |-> stepCompleted, onStepCalls |-> onStepCalls,
   onCompleteCalls |-> onCompleteCalls, onErrorCalls |-> onErrorCalls,
   lastError |-> lastError, onStepStops |-> onStepStops]

\* The next state's World is w.
SetWorld(w) ==
  /\ dimensions' = w.dimensions
  /\ karel' = w.karel
  /\ beepers' = w.beepers
  /\ walls' = w.walls
  /\ initialKarel' = w.initialKarel
  /\ initialBeepers' = w.initialBeepers
  /\ isModified' = w.isModified

\* The next state's Interpreter and World are s.
SetInterpreter(s) ==
  /\ SetWorld(s.world)
  /\ ast' = s.ast
  /\ customInstructions' = s.customInstructions
  /\ running' = s.running
  /\ currentLine' = s.currentLine
  /\ executionSpeed' = s.executionSpeed
  /\ iterationCount' = s.iterationCount
  /\ executionStack' = s.executionStack
  /\ stepInitialized' = s.stepInitialized
  /\ stepCompleted' = s.stepCompleted
  /\ onStepCalls' = s.onStepCalls
  /\ onCompleteCalls' = s.onCompleteCalls
  /\ onErrorCalls' = s.onErrorCalls
  /\ lastError' = s.lastError
  /\ onStepStops' = s.onStepStops

\* A World is constructed from a valid description, an Interpreter is
\* constructed on it and a source is loaded.
InitObjects(programs) ==
  /\ map \in Maps
  /\ \E parsed \in programs :
       LET s == load(Interpreter_new(World_new(map).world), parsed) IN
       /\ dimensions = s.world.dimensions
       /\ karel = s.world.karel
       /\ beepers = s.world.beepers
       /\ walls = s.world.walls
       /\ initialKarel = s.world.initialKarel
       /\ initialBeepers = s.world.initialBeepers
       /\ isModified = s.world.isModified
       /\ ast = s.ast
       /\ customInstructions = s.customInstructions
       /\ running = s.running
       /\ currentLine = s.currentLine
       /\ executionSpeed = s.executionSpeed
       /\ iterationCount = s.iterationCount
       /\ executionStack = s.executionStack
       /\ stepInitialized = s.stepInitialized
       /\ stepCompleted = s.stepCompleted
       /\ onStepCalls = s.onStepCalls
       /\ onCompleteCalls = s.onCompleteCalls
       /\ onErrorCalls = s.onErrorCalls
       /\ lastError = s.lastError
       /\ onStepStops = s.onStepStops
       /\ diagnostics = parsed.diagnostics
  /\ runPc = "idle"
  /\ delayMs = <<>>
  /\ lastCall = "load"
  /\ lastStepRet = <<>>
  /\ thrown = <<>>
  /\ stepOnly = TRUE
  /\ copy = <<>>
  /\ sensed = <<>>

\* The same, with no document open.
InitWith(programs) ==
  /\ InitObjects(programs)
  /\ source = <<>>
  /\ parseResult = <<>>
  /\ edits = 0

Init == InitWith(Programs)

\* ------------------------------------------------------------------------
\* Actions of the interpreter's host
\* ------------------------------------------------------------------------

\* interpreter.load(source), the source one of those given
LoadOf(programs) ==
  \E parsed \in programs :
    /\ SetInterpreter(load(Cur, parsed))
    /\ diagnostics' = parsed.diagnostics
    /\ lastCall' = "load"
    /\ lastStepRet' = <<>>
    /\ thrown' = <<>>
    /\ stepOnly' = FALSE
    /\ UNCHANGED <<map, runPc, delayMs, copy, docVars>>

\* What a call of step() leaves: the Interpreter, the boolean returned
\* and the exception thrown.
AfterStep(r) ==
  /\ SetInterpreter(r.state)
  /\ lastStepRet' = r.ret
  /\ thrown' = r.thrown

\* What a turn of run() leaves: the Interpreter, where run() stands, the
\* delay it awaits and the exception thrown.
AfterRun(r) ==
  /\ SetInterpreter(r.state)
  /\ runPc' = r.pc
  /\ delayMs' = IF r.pc = "delay" THEN <<delay(r.state)>> ELSE <<>>
  /\ thrown' = r.thrown

\* interpreter.step()
Step ==
  /\ \E r \in {step(Cur)} : AfterStep(r)
  /\ lastCall' = "step"
  /\ UNCHANGED <<map, runPc, delayMs, diagnostics, stepOnly, copy, docVars>>

\* interpreter.run(), up to its first await or its end
Run ==
  /\ runPc = "idle"
  /\ AfterRun(run(Cur))
  /\ lastCall' = "run"
  /\ lastStepRet' = <<>>
  /\ stepOnly' = FALSE
  /\ UNCHANGED <<map, diagnostics, copy, docVars>>

\* The delay of run() elapses: next turn of its loop
RunDelayElapsed ==
  /\ runPc = "delay"
  /\ AfterRun(runLoop(Cur))
  /\ UNCHANGED <<map, diagnostics, lastCall, lastStepRet, stepOnly, copy, docVars>>

\* interpreter.initializeStepMode(), called by the host to prepare a run:
\* when none is prepared yet, or when nothing is loaded
InitializeStepMode ==
  /\ ~stepInitialized \/ ast.type = "null"
  /\ IF ast.type = "null"
     THEN /\ thrown' = <<RuntimeError("programNotLoaded", <<>>)>>
          /\ UNCHANGED <<worldVars, interpVars>>
     ELSE /\ thrown' = <<>>
          /\ SetInterpreter(initializeStepMode(Cur))
  /\ lastCall' = "initializeStepMode"
  /\ lastStepRet' = <<>>
  /\ stepOnly' = FALSE
  /\ UNCHANGED <<map, runPc, delayMs, diagnostics, copy, docVars>>

\* interpreter.stop()
Stop ==
  /\ SetInterpreter(stop(Cur))
  /\ lastCall' = "stop"
  /\ lastStepRet' = <<>>
  /\ thrown' = <<>>
  /\ stepOnly' = FALSE
  /\ UNCHANGED <<map, runPc, delayMs, diagnostics, copy, docVars>>

\* interpreter.reset()
Reset ==
  /\ SetInterpreter(Interpreter_reset(Cur))
  /\ lastCall' = "reset"
  /\ lastStepRet' = <<>>
  /\ thrown' = <<>>
  /\ stepOnly' = (runPc = "idle")
  /\ UNCHANGED <<map, runPc, delayMs, diagnostics, copy, docVars>>

\* interpreter.load(source)
Load == LoadOf(Programs)

Next == Load \/ Step \/ Run \/ RunDelayElapsed \/ Stop \/ Reset

Spec == Init /\ [][Next]_vars

\* The sources of a host that also calls initializeStepMode(): two programs
\* and a source with a fatal error.
UnloadedPrograms == {ProgMove, ProgTurnRight, ProgFatal}

\* interpreter.load(source) of that host
LoadUnloaded == LoadOf(UnloadedPrograms)

NextUnloaded ==
  LoadUnloaded \/ Step \/ Run \/ RunDelayElapsed \/ InitializeStepMode \/ Stop \/ Reset

InitUnloaded == InitWith(UnloadedPrograms)

SpecUnloaded == InitUnloaded /\ [][NextUnloaded]_vars

\* The sources of a host that steps through a loaded program: every source
\* that has an AST.
SteppingPrograms == Programs \ {ProgFatal}

NextStepping == Step \/ Stop

InitStepping == InitWith(SteppingPrograms)

\* The host keeps calling step(): a call of step() that would change the
\* state is not postponed forever.
SpecStepping == InitStepping /\ [][NextStepping]_vars /\ WF_vars(Step)

\* The programs of a host whose onStep handler may call stop().
CallbackPrograms == {ProgMove, ProgTurnRight, ProgWhile}

\* interpreter.onStep = handler: one that calls interpreter.stop(), or one
\* that does not
SetOnStep ==
  /\ \E stops \in BOOLEAN : onStepStops' = stops
  /\ lastCall' = "setOnStep"
  /\ lastStepRet' = <<>>
  /\ thrown' = <<>>
  /\ stepOnly' = FALSE
  /\ UNCHANGED <<map, worldVars, ast, customInstructions, running, currentLine,
                 executionSpeed, iterationCount, executionStack, stepInitialized,
                 stepCompleted, onStepCalls, onCompleteCalls, onErrorCalls, lastError,
                 runPc, delayMs, diagnostics, copy, docVars>>

NextCallback == SetOnStep \/ Step \/ Run \/ RunDelayElapsed \/ Stop \/ Reset

InitCallback == InitWith(CallbackPrograms)

SpecCallback == InitCallback /\ [][NextCallback]_vars

\* ------------------------------------------------------------------------
\* Actions on the World alone
\* ------------------------------------------------------------------------

\* A World method is called; the interpreter is not involved.
WorldCall(name, r) ==
  /\ SetWorld(r.world)
  /\ lastCall' = name
  /\ thrown' = r.thrown
  /\ copy' = <<>>
  /\ sensed' = <<>>
  /\ UNCHANGED <<map, interpVars, runPc, delayMs, diagnostics, lastStepRet, stepOnly,
                 source, parseResult, edits>>

\* world.move()
Move == WorldCall("move", World_move(TheWorld))

\* world.turnLeft()
TurnLeft == WorldCall("turnLeft", World_turnLeft(TheWorld))

\* world.pickBeeper()
PickBeeper == WorldCall("pickBeeper", World_pickBeeper(TheWorld))

\* world.putBeeper()
PutBeeper == WorldCall("putBeeper", World_putBeeper(TheWorld))

\* world.reset()
WorldReset == WorldCall("reset", [thrown |-> <<>>, world |-> World_reset(TheWorld)])

\* World.fromJSON(world.toJSON()): a second World, kept by the host
Serialize ==
  /\ copy' = <<World_fromJSON(World_toJSON(TheWorld)).world>>
  /\ lastCall' = "toJSON"
  /\ thrown' = <<>>
  /\ sensed' = <<>>
  /\ UNCHANGED <<map, worldVars, interpVars, runPc, delayMs, diagnostics, lastStepRet,
                 stepOnly, source, parseResult, edits>>

\* The names asked of evaluateCondition: the seventeen it knows, some of
\* them in other letter cases, and names it does not know.
ConditionNames ==
  WorldConditions
  \cup {"Front-Is-Clear", "LEFT-IS-BLOCKED", "Not-Facing-East", "BEEPER-IN-BAG"}
  \cup {"front-is-open", "Facing-Up", "not-beeper-in-bag", ""}

\* What the host keeps of a call of evaluateCondition.
Sensed(name, r) ==
  /\ sensed' = IF r.thrown = <<>> THEN <<[ret |-> r.ret, name |-> name]>> ELSE <<>>
  /\ thrown' = r.thrown

\* world.evaluateCondition(name)
EvaluateCondition ==
  \E name \in ConditionNames :
    /\ Sensed(name, evaluateCondition(TheWorld, name))
    /\ lastCall' = "evaluateCondition"
    /\ copy' = <<>>
    /\ UNCHANGED <<map, worldVars, interpVars, runPc, delayMs, diagnostics, lastStepRet,
                   stepOnly, source, parseResult, edits>>

NextWorld ==
  \/ Move \/ TurnLeft \/ PickBeeper \/ PutBeeper \/ WorldReset \/ Serialize
  \/ EvaluateCondition

\* The World's own behaviour does not depend on the program loaded.
InitWorld == InitWith({ProgMove})

SpecWorld == InitWorld /\ [][NextWorld]_vars

\* The programs of a host that steps through a program and acts on the
\* World between the steps.
RoamPrograms == {ProgWhile, ProgMove}

NextRoam == Step \/ Reset \/ Move \/ TurnLeft \/ PickBeeper \/ PutBeeper

InitRoam == InitWith(RoamPrograms)

SpecRoam == InitRoam /\ [][NextRoam]_vars

\* ------------------------------------------------------------------------
\* Actions on the walls of the World
\* ------------------------------------------------------------------------

\* The cells a wall is asked between: the 2x2 grid and one cell east of it.
WallEnds == {Pos(x, y) : x \in 1..2, y \in 1..2} \cup {Pos(3, 1)}

\* A map file is chosen: state.world = World.fromJSON(map), unless the
\* constructor throws, and the World of before is kept.
LoadMap ==
  \E m \in WallMaps :
    /\ IF World_fromJSON(m).thrown = <<>>
       THEN SetWorld(World_fromJSON(m).world) /\ map' = m
       ELSE UNCHANGED <<map, worldVars>>
    /\ lastCall' = "fromJSON"
    /\ thrown' = World_fromJSON(m).thrown
    /\ copy' = <<>>
    /\ sensed' = <<>>
    /\ UNCHANGED <<interpVars, runPc, delayMs, diagnostics, lastStepRet, stepOnly,
                   source, parseResult, edits>>

\* What a call of addWall or removeWall leaves.
WallCall(name, r) ==
  /\ walls' = r.walls
  /\ lastCall' = name
  /\ thrown' = r.thrown
  /\ copy' = <<>>
  /\ sensed' = <<>>
  /\ UNCHANGED <<map, dimensions, karel, beepers, initialKarel, initialBeepers,
                 isModified, interpVars, runPc, delayMs, diagnostics, lastStepRet,
                 stepOnly, source, parseResult, edits>>

\* world.addWall(from, to)
AddWall == \E from \in WallEnds, to \in WallEnds : WallCall("addWall", addWall(walls, from, to))

\* world.removeWall(from, to)
RemoveWall ==
  \E from \in WallEnds, to \in WallEnds :
    WallCall("removeWall", [walls |-> removeWall(walls, from, to), thrown |-> <<>>])

NextWalls == LoadMap \/ AddWall \/ RemoveWall

InitWalls == InitWith({ProgMove})

SpecWalls == InitWalls /\ [][NextWalls]_vars

\* ------------------------------------------------------------------------
\* Actions on the document
\* ------------------------------------------------------------------------

\* The program of the README, with a call in another letter case and an
\* ELSE branch.
SrcTurnRight ==
  <<<<"BEGINNING-OF-PROGRAM">>,
    <<"\t", "DEFINE-NEW-INSTRUCTION", " ", "turnright", " ", "AS">>,
    <<"\t", "BEGIN">>,
    <<"\t", "\t", "turnleft", ";">>,
    <<"\t", "\t", "turnleft", ";">>,
    <<"\t", "\t", "turnleft">>,
    <<"\t", "END">>,
    <<"\t", "BEGINNING-OF-EXECUTION">>,
    <<"\t", "\t", "move", ";">>,
    <<"\t", "\t", "TurnRight", ";">>,
    <<"\t", "\t", "IF", " ", "front-is-clear", " ", "THEN">>,
    <<"\t", "\t", "BEGIN">>,
    <<"\t", "\t", "\t", "move">>,
    <<"\t", "\t", "END">>,
    <<"\t", "\t", "ELSE">>,
    <<"\t", "\t", "BEGIN">>,
    <<"\t", "\t", "\t", "turnleft">>,
    <<"\t", "\t", "END">>,
    <<"\t", "\t", "turnoff">>,
    <<"\t", "END-OF-EXECUTION">>,
    <<"END-OF-PROGRAM">>>>

\* A comment, a blank line, the two loops nested, keywords and names in
\* other letter cases, spaces for indentation.
SrcLoops ==
  <<<<"//", " ", "loops">>,
    <<"BEGINNING-OF-PROGRAM">>,
    <<"BEGINNING-OF-EXECUTION">>,
    <<" ", "\t">>,
    <<"\t", "iterate", " ", "2", " ", "TIMES">>,
    <<"\t", "begin">>,
    <<"\t", "\t", "WHILE", " ", "Front-Is-Clear", " ", "DO">>,
    <<"\t", "\t", "BEGIN">>,
    <<"\t", "\t", "\t", "Move", ";">>,
    <<"\t", "\t", "End">>,
    <<" ", " ", "turnleft", " ", ";">>,
    <<"\t", "END">>,
    <<"\t", "TurnOff", " ">>,
    <<"END-OF-EXECUTION">>,
    <<"END-OF-PROGRAM">>>>

\* Two instructions, the second calling the first in two letter cases, a
\* call of an instruction that does not exist, semicolons before END and
\* apart from their word, several calls on a line.
SrcBack ==
  <<<<"BEGINNING-OF-PROGRAM">>,
    <<"DEFINE-NEW-INSTRUCTION", " ", "turnaround", " ", "AS">>,
    <<"BEGIN">>,
    <<"\t", "turnleft", ";">>,
    <<"\t", "turnleft", ";">>,
    <<"END">>,
    <<"DEFINE-NEW-INSTRUCTION", " ", "back", " ", "AS">>,
    <<"BEGIN">>,
    <<"\t", "turnaround", ";", " ", "move", ";", " ", "TURNAROUND">>,
    <<"END">>,
    <<"BEGINNING-OF-EXECUTION">>,
    <<"\t", "ITERATE", " ", "3", " ", "TIMES">>,
    <<"\t", "BEGIN">>,
    <<"\t", "\t", "back", ";">>,
    <<"\t", "\t", "fly", ";">>,
    <<"\t", "END">>,
    <<"\t", "pickbeeper", " ", ";">>,
    <<"\t", "turnoff", ";">>,
    <<"END-OF-EXECUTION">>,
    <<"END-OF-PROGRAM">>>>

\* A program whose execution block is empty.
SrcEmpty ==
  <<<<"BEGINNING-OF-PROGRAM">>,
    <<"BEGINNING-OF-EXECUTION">>,
    <<"END-OF-EXECUTION">>,
    <<"END-OF-PROGRAM">>>>

\* A program whose only turnoff is inside the IF that ends it.
SrcNested ==
  <<<<"BEGINNING-OF-PROGRAM">>,
    <<"BEGINNING-OF-EXECUTION">>,
    <<"\t", "move", ";">>,
    <<"\t", "IF", " ", "front-is-clear", " ", "THEN">>,
    <<"\t", "BEGIN">>,
    <<"\t", "\t", "turnoff", ";">>,
    <<"\t", "END">>,
    <<"END-OF-EXECUTION">>,
    <<"END-OF-PROGRAM">>>>

\* The documents opened.
Sources == {SrcTurnRight, SrcLoops, SrcBack, SrcEmpty, SrcNested}

\* The pieces typed into a document.
EditPieces ==
  {";", " ", "//", "turnoff", "fly", "0", "03", "END", "BEGIN", "ELSE",
   "facing-up", "next-to-a-beeper", "turnright", "back"}

\* The document is edited: the parse of before is of another text.
Edited(lines) ==
  /\ edits < MaxEdits
  /\ source' = lines
  /\ edits' = edits + 1
  /\ parseResult' = <<>>
  /\ lastCall' = "edit"
  /\ UNCHANGED <<map, worldVars, interpVars, runPc, delayMs, diagnostics, lastStepRet,
                 thrown, stepOnly, copy, sensed>>

\* A piece of the document is deleted.
EditDelete ==
  \E l \in 1..Len(source) : \E i \in 1..Len(source[l]) :
    Edited([source EXCEPT ![l] = SubSeq(@, 1, i - 1) \o SubSeq(@, i + 1, Len(@))])

\* A piece of the document is typed over.
EditReplace ==
  \E l \in 1..Len(source) : \E i \in 1..Len(source[l]) : \E piece \in EditPieces :
    Edited([source EXCEPT ![l][i] = piece])

\* A piece is typed into the document, before a piece or at the end of a line.
EditInsert ==
  \E l \in 1..Len(source) : \E i \in 1..(Len(source[l]) + 1) : \E piece \in EditPieces :
    Edited([source EXCEPT ![l] = SubSeq(@, 1, i - 1) \o <<piece>> \o SubSeq(@, i, Len(@))])

\* What interpreter.load(source) leaves, parser.parse(source) having
\* returned r.
Loaded(r) ==
  /\ parseResult' = <<r>>
  /\ SetInterpreter(load(Cur, r))
  /\ diagnostics' = r.diagnostics

\* interpreter.load(source), on the text of the document
LoadSource ==
  /\ Loaded(parse(source))
  /\ lastCall' = "load"
  /\ lastStepRet' = <<>>
  /\ thrown' = <<>>
  /\ stepOnly' = FALSE
  /\ UNCHANGED <<map, runPc, delayMs, copy, sensed, source, edits>>

NextParser == EditDelete \/ EditReplace \/ EditInsert \/ LoadSource

\* A document is open in the editor; nothing of it is loaded yet.
InitParser ==
  /\ InitObjects({ProgMove})
  /\ map = MapOpen
  /\ source \in Sources
  /\ parseResult = <<>>
  /\ edits = 0

SpecParser == InitParser /\ [][NextParser]_vars

\* ------------------------------------------------------------------------
\* Actions on the speed of a run
\* ------------------------------------------------------------------------

\* The delays asked for: around both limits, around the default, and far out.
SpeedInputs == {-MaxMs, -1, 0, 49, 50, 51, 499, 500, 501, 1999, 2000, 2001, MaxMs}

\* interpreter.setSpeed(ms)
SetSpeed ==
  \E ms \in SpeedInputs :
    /\ SetInterpreter(setSpeed(Cur, ms))
    /\ lastCall' = "setSpeed"
    /\ lastStepRet' = <<>>
    /\ thrown' = <<>>
    /\ stepOnly' = FALSE
    /\ UNCHANGED <<map, runPc, delayMs, diagnostics, copy, docVars>>

NextSpeed == SetSpeed \/ Run \/ RunDelayElapsed \/ Stop \/ Reset

\* The speed of a run does not depend on the program loaded.
InitSpeed == InitWith({ProgMove})

SpecSpeed == InitSpeed /\ [][NextSpeed]_vars

\* ------------------------------------------------------------------------
\* The commands of the extension (executionCommands.ts)
\* ------------------------------------------------------------------------

\* The commands keep one World and one Interpreter (StateManager).  A run
\* command replaces the Interpreter; it is taken here only when the run() of
\* the Interpreter it replaces is over or can only end (stopped or
\* completed), so that one Interpreter at a time acts on the World.

\* A check of the diagnostics that finds nothing.
hasErrors_never(d) == FALSE

\* diagnostics.some((d) => d.severity === "error")
hasErrors(d) == \E i \in 1..Len(d) : d[i].severity = "error"

\* Values of the setting vs-karel.executionSpeed.
ConfigSpeeds == {500, 20}

\* The sources the commands are given: two that load cleanly, two with a
\* recoverable error (the AST is kept) and one with a fatal error.
CommandPrograms == {ProgMove, ProgTurnRight, ProgUnknown, ProgNoTurnoff, ProgFatal}

\* Answers to the dialog about a modified World.
Choices == {"Continue", "Reset", "Cancel"}

\* runProgram and runFromWebview from "Create interpreter" on: the new
\* Interpreter, where its run() stands and what it threw.
StartRun(w, parsed, speed) ==
  LET s == load(setSpeed(Interpreter_new(w), speed), parsed) IN
  IF hasErrors(parsed.diagnostics)
  THEN [thrown |-> <<>>, state |-> s, pc |-> "idle"]
  ELSE run(s)

\* stepProgram from "Create new interpreter for stepping" on.
StartStep(w, parsed) ==
  LET s == load(Interpreter_new(w), parsed) IN
  IF hasErrors(parsed.diagnostics)
  THEN [ret |-> <<>>, thrown |-> <<>>, state |-> s]
  ELSE step(s)

\* The run() of the Interpreter in place is over, or its loop can only end.
OldRunOver == runPc = "idle" \/ ~running \/ stepCompleted

\* The state a run command leaves.
CommandRun(name, w, parsed, speed) ==
  /\ AfterRun(StartRun(w, parsed, speed))
  /\ diagnostics' = parsed.diagnostics
  /\ lastCall' = name
  /\ lastStepRet' = <<>>
  /\ stepOnly' = FALSE
  /\ UNCHANGED <<copy, docVars>>

\* runProgram: a map file and a source are chosen
RunProgram ==
  /\ OldRunOver
  /\ \E m \in Maps, parsed \in CommandPrograms, speed \in ConfigSpeeds :
       /\ map' = m
       /\ CommandRun("runProgram", World_fromJSON(m).world, parsed, speed)

\* runFromWebview: the World in place, after the dialog if it is modified
RunFromWebview ==
  /\ OldRunOver
  /\ \E choice \in Choices, parsed \in CommandPrograms, speed \in ConfigSpeeds :
       IF isModified /\ choice = "Cancel"
       THEN /\ lastCall' = "runFromWebview"
            /\ UNCHANGED <<map, worldVars, interpVars, runPc, delayMs, diagnostics,
                           lastStepRet, thrown, stepOnly, copy, docVars>>
       ELSE /\ UNCHANGED map
            /\ CommandRun("runFromWebview",
                          IF isModified /\ choice = "Reset"
                          THEN World_reset(TheWorld) ELSE TheWorld,
                          parsed, speed)

\* stepProgram: the next step of the Interpreter in place, or a new
\* Interpreter and its first step
StepProgram ==
  /\ lastCall' = "stepProgram"
  /\ stepOnly' = FALSE
  /\ UNCHANGED <<map, copy, docVars>>
  /\ IF stepInitialized /\ ~stepCompleted
     THEN /\ AfterStep(step(Cur))
          /\ UNCHANGED <<runPc, delayMs, diagnostics>>
     ELSE \E parsed \in CommandPrograms :
            /\ AfterStep(StartStep(TheWorld, parsed))
            /\ diagnostics' = parsed.diagnostics
            /\ runPc' = "idle"
            /\ delayMs' = <<>>

\* stopProgram
StopProgram ==
  /\ SetInterpreter(stop(Cur))
  /\ lastCall' = "stopProgram"
  /\ lastStepRet' = <<>>
  /\ thrown' = <<>>
  /\ stepOnly' = FALSE
  /\ UNCHANGED <<map, runPc, delayMs, diagnostics, copy, docVars>>

\* resetWorld: world.reset(), then interpreter.reset()
ResetWorld ==
  /\ SetInterpreter(Interpreter_reset([Cur EXCEPT !.world = World_reset(TheWorld)]))
  /\ lastCall' = "resetWorld"
  /\ lastStepRet' = <<>>
  /\ thrown' = <<>>
  /\ stepOnly' = FALSE
  /\ UNCHANGED <<map, runPc, delayMs, diagnostics, copy, docVars>>

NextCommands ==
  RunProgram \/ RunFromWebview \/ StepProgram \/ StopProgram \/ ResetWorld
    \/ RunDelayElapsed

\* A command has just been refused: an Interpreter with a source whose
\* diagnostics hold an error.
InitCommands == InitWith({ProgUnknown, ProgNoTurnoff, ProgFatal})

SpecCommands == InitCommands /\ [][NextCommands]_vars

\* ------------------------------------------------------------------------
\* Helpers of the properties
\* ------------------------------------------------------------------------

Cells(w) == {Pos(x, y) : x \in 1..w.dimensions.width, y \in 1..w.dimensions.height}

\* What an observer sees of a World: the robot and the count on every cell.
WorldState(w) ==
  [position |-> w.karel.position, facing |-> w.karel.facing,
   beepersInBag |-> w.karel.beepersInBag,
   counts |-> [p \in Cells(w) |-> getBeepers(w, p)]]

\* The members of a Set, and the entries of a Map, order forgotten.
Members(s) == {s[i] : i \in 1..Len(s)}

RECURSIVE Drive(_)
\* run() left alone: every delay elapses with nothing called in between.
Drive(r) == IF r.pc = "idle" THEN r.state ELSE Drive(runLoop(r.state))

\* A new Interpreter on a new World built from the same description, with
\* the same program loaded.
Fresh == load(Interpreter_new(World_new(map).world), Parsed(ast, <<>>))

RECURSIVE Times(_, _, _)
\* f applied n times to x.
Times(f(_), x, n) == IF n = 0 THEN x ELSE Times(f, f(x), n - 1)

\* The fixed cycle of facings.
Cycle == <<North, West, South, East>>

CycleIndex(d) == CHOOSE i \in 1..4 : Cycle[i] = d

\* The call the top frame is about to execute, if it is at one.
AtCall(s) ==
  /\ Len(s.executionStack) > 0
  /\ LET frame == s.executionStack[Len(s.executionStack)] IN
     /\ frame.type = "block"
     /\ frame.index < Len(frame.statements)
     /\ frame.statements[frame.index + 1].type = "call"

NextCall(s) ==
  LET frame == s.executionStack[Len(s.executionStack)] IN
  toLowerCase(frame.statements[frame.index + 1].name)

\* The call named fails in world w with the instruction table given.
Fails(name, w, table) ==
  \/ name = "move" /\ frontIsBlocked(w)
  \/ name = "pickbeeper" /\ getBeepers(w, w.karel.position) = 0
  \/ name = "putbeeper" /\ w.karel.beepersInBag = 0
  \/ /\ name \notin {"move", "turnleft", "pickbeeper", "putbeeper", "turnoff"}
     /\ ~MapHas(table, name)

\* ------------------------------------------------------------------------
\* Properties
\* ------------------------------------------------------------------------

\* C1: when step() has been called repeatedly on a fresh interpreter until it
\* returned false, the World (robot position, facing, bag, cell counts) is
\* the one a single run() reaches on a fresh interpreter with the same
\* program and the same initial World.
C1_StepsEqualRun ==
  (stepOnly /\ lastCall = "step" /\ lastStepRet = <<FALSE>>)
    => WorldState(TheWorld) = WorldState(Drive(run(Fresh)).world)

C1_Witness ==
  /\ stepOnly /\ lastCall = "step" /\ lastStepRet = <<FALSE>>
  /\ onStepCalls >= 4
  /\ karel.position # initialKarel.position

\* C2: a visible step is one primitive or one terminate, never the dispatch
\* of a custom instruction: a step() that returns true has executed one
\* primitive on the World, and turnright, defined as three turnleft and
\* called once before turnoff, gives three visible steps and the one of
\* turnoff, with the facing turned 90 degrees clockwise.
C2_CustomCallNotAStep ==
  /\ [][(Step /\ lastStepRet' = <<TRUE>>) => (karel' # karel \/ beepers' # beepers)]_vars
  /\ []((stepOnly /\ ast = ProgTurnRight.ast /\ lastCall = "step"
           /\ lastStepRet = <<FALSE>>)
          => /\ onStepCalls = 3 + 1
             /\ karel.facing = RightTurnMap[initialKarel.facing])

\* C3: stop() leaves the completed flag, the frame stack and the World as
\* they are, and the step() that follows does what step() would have done
\* without it.
C3_StopKeepsPosition ==
  [][Stop =>
       /\ stepCompleted' = stepCompleted
       /\ executionStack' = executionStack
       /\ TheWorld' = TheWorld
       /\ LET a == step(Cur)
              b == step(Cur')
          IN /\ a.ret = b.ret
             /\ a.thrown = b.thrown
             /\ a.state.world = b.state.world
             /\ a.state.executionStack = b.state.executionStack
             /\ a.state.stepCompleted = b.state.stepCompleted
             /\ a.state.currentLine = b.state.currentLine
             /\ a.state.onStepCalls = b.state.onStepCalls]_vars

C3_Witness ==
  /\ lastCall = "stop"
  /\ stepInitialized /\ ~stepCompleted /\ ~running
  /\ isModified
  /\ step(Cur).state.world # TheWorld

\* C4: a run() called after stop() has halted an unfinished run resumes at
\* the same frame-stack position: it executes the statement step() would
\* execute there.
C4_RunResumesAfterStop ==
  [][(Run /\ stepInitialized /\ ~stepCompleted /\ ~running /\ ast.type # "null")
       => LET a == step(Cur) IN
          /\ TheWorld' = a.state.world
          /\ executionStack' = a.state.executionStack
          /\ onStepCalls' = a.state.onStepCalls]_vars

\* C5: a failing World operation or a call of an unknown instruction marks
\* the run completed, delivers the error once and no completion, and leaves
\* the World as it was; after an error nothing executes until reset().
C5_ErrorEndsRun ==
  /\ [](onErrorCalls <= 1)
  /\ [](onErrorCalls = 1 => (stepCompleted /\ onCompleteCalls = 0 /\ lastError # <<>>))
  /\ [][((Step \/ ((Run \/ RunDelayElapsed) /\ running))
          /\ stepInitialized /\ ~stepCompleted /\ ast.type # "null"
          /\ iterationCount < maxIterations
          /\ AtCall(Cur) /\ Fails(NextCall(Cur), TheWorld, customInstructions))
         => /\ stepCompleted'
            /\ onErrorCalls' = onErrorCalls + 1
            /\ onCompleteCalls' = onCompleteCalls
            /\ lastError'[1].name = "RuntimeError"
            /\ thrown' = <<>>
            /\ karel' = karel /\ beepers' = beepers /\ isModified' = isModified]_vars
  /\ [][(onErrorCalls = 1 /\ ~Reset)
         => /\ TheWorld' = TheWorld
            /\ executionStack' = executionStack
            /\ iterationCount' = iterationCount
            /\ <<onStepCalls', onCompleteCalls', onErrorCalls'>>
                 = <<onStepCalls, onCompleteCalls, onErrorCalls>>
            /\ stepCompleted']_vars

C5_Witness ==
  /\ onErrorCalls = 1
  /\ lastError[1].message \in {"moveBlocked", "noBeepersToPickUp", "noBeepersInBag",
                               "unknownInstruction"}
  /\ lastCall \in {"step", "run"}
  /\ onStepCalls >= 2

\* C6: every wall registered between A and B blocks both directions, and a
\* move() of a robot standing on one side and facing the other fails and
\* leaves the whole World, modified flag included, as it was.
C6_WallBlocksBothWays ==
  \A i \in 1..Len(map.walls) :
    LET A == map.walls[i].from
        B == map.walls[i].to
        r == World_move(TheWorld)
    IN /\ isBlocked(TheWorld, A, B)
       /\ isBlocked(TheWorld, B, A)
       /\ (\/ (karel.position = A /\ frontPosition(karel) = B)
           \/ (karel.position = B /\ frontPosition(karel) = A))
            => (r.thrown # <<>> /\ r.world = TheWorld)

C6_Witness ==
  /\ lastCall = "move" /\ thrown # <<>>
  /\ isInBounds(TheWorld, frontPosition(karel))
  /\ \E i \in 1..Len(map.walls) :
       karel.position = map.walls[i].from /\ frontPosition(karel) = map.walls[i].to

\* C7: in every state reached by move, turnLeft, pickBeeper, putBeeper and
\* reset, reset() gives back the robot and the beepers of construction,
\* clears the modified flag and leaves walls, dimensions and the saved
\* snapshot as they are.
C7_ResetRestores ==
  LET r == World_reset(TheWorld)
      c == World_new(map).world
  IN /\ r.karel = c.karel
     /\ r.beepers = c.beepers
     /\ r.isModified = FALSE
     /\ r.walls = walls /\ r.walls = c.walls
     /\ r.dimensions = dimensions /\ r.dimensions = c.dimensions
     /\ r.initialKarel = c.initialKarel
     /\ r.initialBeepers = c.initialBeepers
     /\ (lastCall = "reset" => TheWorld = c)

C7_Witness ==
  /\ isModified
  /\ karel.position # initialKarel.position
  /\ karel.facing # initialKarel.facing
  /\ karel.beepersInBag # initialKarel.beepersInBag
  /\ beepers # initialBeepers
  /\ Len(walls) > 0

\* C8: n calls of turnLeft() never fail, set the modified flag and change
\* nothing else than the facing, which moves n places along the cycle
\* North, West, South, East.
C8_TurnLeftCycle ==
  \A n \in 0..MaxTurns :
    LET Turn(w) == World_turnLeft(w).world
        final == Times(Turn, TheWorld, n)
    IN /\ World_turnLeft(final).thrown = <<>>
       /\ final.karel.facing = Cycle[((CycleIndex(karel.facing) - 1 + n) % 4) + 1]
       /\ final = [TheWorld EXCEPT !.karel.facing = final.karel.facing,
                                   !.isModified = (isModified \/ n > 0)]
       /\ (n = 4 => final.karel.facing = karel.facing)

C8_Witness ==
  /\ lastCall = "turnLeft"
  /\ karel.facing = South
  /\ initialKarel.facing = East

\* C9: the World rebuilt from the serialized description has the dimensions,
\* the robot, the wall set and the beeper map of the World serialized.
C9_RoundTrip ==
  copy # <<>> =>
    /\ copy[1].dimensions = dimensions
    /\ copy[1].karel = karel
    /\ Members(copy[1].walls) = Members(walls)
    /\ Members(copy[1].beepers) = Members(beepers)

C9_Witness ==
  /\ copy # <<>>
  /\ isModified
  /\ Len(walls) > 0
  /\ Len(beepers) >= 2
  /\ karel.beepersInBag > 0
  /\ \E i \in 1..Len(beepers) : beepers[i][1][1] # beepers[i][1][2]

\* C10: ITERATE n TIMES runs its body exactly n times and takes no visible
\* step itself: stepping such a program to its end without an error gives n
\* steps of the body and the one of turnoff, no iterate frame has a count of
\* zero, and no iterate frame has run its body more often than its count.
C10_IterateCount ==
  /\ \A i \in 1..Len(executionStack) :
       executionStack[i].type = "iterate"
         => (executionStack[i].count > 0
             /\ executionStack[i].current <= executionStack[i].count)
  /\ \A n \in 0..MaxCount :
       /\ (stepOnly /\ ast = ProgIterate(n, "turnleft").ast /\ lastCall = "step")
            => /\ onStepCalls <= n + 1
               /\ karel = Times(Karel_turnLeft, initialKarel,
                                IF onStepCalls <= n THEN onStepCalls ELSE n)
               /\ (lastStepRet = <<FALSE>> => (onStepCalls = n + 1 /\ onCompleteCalls = 1))
       /\ (stepOnly /\ ast = ProgIterate(n, "move").ast /\ lastCall = "step"
             /\ onErrorCalls = 0)
            => /\ onStepCalls <= n + 1
               /\ karel = Times(Karel_move, initialKarel,
                                IF onStepCalls <= n THEN onStepCalls ELSE n)
               /\ (lastStepRet = <<FALSE>> => (onStepCalls = n + 1 /\ onCompleteCalls = 1))

C10_Witness ==
  /\ stepOnly /\ lastCall = "step" /\ lastStepRet = <<FALSE>>
  /\ ast = ProgIterate(3, "move").ast
  /\ onErrorCalls = 0
  /\ onStepCalls = 4
  /\ karel.position = Pos(1, 4)

RECURSIVE ClearAhead(_)
\* The number of cells a robot can advance through in world w, straight ahead.
ClearAhead(w) ==
  IF frontIsBlocked(w) THEN 0
  ELSE 1 + ClearAhead([w EXCEPT !.karel = Karel_move(w.karel)])

\* C11: a while frame below the top of the stack has the frame of its body
\* directly above it, and is on top only after an error; WHILE
\* front-is-clear DO BEGIN move END, stepped on a World with L clear cells
\* ahead, makes exactly L moves and then turnoff, with no error; and in the
\* middle of a two-statement body the second statement is executed next,
\* whatever the condition has become.
C11_WhileLoop ==
  /\ \A i \in 1..Len(executionStack) :
       executionStack[i].type = "while"
         => IF i < Len(executionStack)
            THEN /\ executionStack[i + 1].type = "block"
                 /\ executionStack[i + 1].statements = executionStack[i].body.statements
                 /\ executionStack[i + 1].index <= Len(executionStack[i].body.statements)
            ELSE stepCompleted /\ onErrorCalls = 1
  /\ (stepOnly /\ ast = ProgWhile.ast /\ lastCall = "step")
       => LET L == ClearAhead(World_new(map).world) IN
          /\ onErrorCalls = 0
          /\ onStepCalls <= L + 1
          /\ karel = Times(Karel_move, initialKarel, Min(onStepCalls, L))
          /\ (lastStepRet = <<FALSE>> => (onStepCalls = L + 1 /\ onCompleteCalls = 1))
  /\ (stepOnly /\ ast = ProgWhileTwo.ast /\ lastCall = "step"
        /\ lastStepRet = <<TRUE>> /\ onStepCalls % 2 = 1
        /\ iterationCount < maxIterations)
       => LET a == step(Cur) IN
          /\ a.ret = <<TRUE>>
          /\ a.state.world.karel = Karel_turnLeft(karel)
          /\ a.state.onStepCalls = onStepCalls + 1

C11_Witness ==
  /\ stepOnly /\ lastCall = "step" /\ lastStepRet = <<FALSE>>
  /\ ast = ProgWhile.ast
  /\ ClearAhead(World_new(map).world) = 3
  /\ onStepCalls = 4
  /\ karel.position = Pos(1, 4)
  /\ onErrorCalls = 0

\* C12: the iteration count only grows between frame-stack initialization
\* and reset(), across steps; the maximum-iterations error has been raised
\* exactly when the count has passed the ceiling; the step that passes it
\* stops at ceiling + 1, marks the run completed, delivers the error once
\* and no completion, and executes no call.  With a program that spends one
\* transition per step the error comes at step ceiling + 1.
C12_IterationCeiling ==
  /\ [](iterationCount <= maxIterations + 1)
  /\ []((lastError # <<>> /\ lastError[1].message = "maxIterationsReached")
          <=> iterationCount > maxIterations)
  /\ [][(~Reset) => iterationCount' >= iterationCount]_vars
  /\ [][((Step \/ Run \/ RunDelayElapsed)
          /\ iterationCount <= maxIterations /\ iterationCount' > maxIterations)
         => /\ iterationCount' = maxIterations + 1
            /\ stepCompleted'
            /\ onErrorCalls' = onErrorCalls + 1
            /\ onErrorCalls' = 1
            /\ onCompleteCalls' = onCompleteCalls
            /\ onStepCalls' = onStepCalls
            /\ karel' = karel /\ beepers' = beepers]_vars
  /\ []((stepOnly /\ ast = ProgSpin.ast /\ lastCall = "step")
          => IF onErrorCalls = 0
             THEN iterationCount = onStepCalls /\ onStepCalls <= maxIterations
             ELSE iterationCount = maxIterations + 1 /\ onStepCalls = maxIterations)

C12_Witness ==
  /\ stepOnly /\ lastCall = "step" /\ lastStepRet = <<FALSE>>
  /\ ast = ProgSpin.ast
  /\ onErrorCalls = 1
  /\ lastError[1].message = "maxIterationsReached"
  /\ onStepCalls = maxIterations
  /\ stepCompleted

\* C13: a step that executes turnoff, at any depth, reports that no step
\* remains, delivers the completion once and no error, leaves the World as
\* it is and may leave frames on the stack; once the run is completed
\* nothing executes until reset().  move; turnoff on the empty 3x3 world
\* ends at (1,2), and a turnoff inside a custom instruction inside a loop
\* ends the run before the statements that follow it.
C13_TurnoffEndsRun ==
  /\ [](onCompleteCalls <= 1)
  /\ [](onCompleteCalls = 1 => (stepCompleted /\ onErrorCalls = 0))
  /\ [][((Step \/ ((Run \/ RunDelayElapsed) /\ running))
          /\ stepInitialized /\ ~stepCompleted /\ ast.type # "null"
          /\ iterationCount < maxIterations
          /\ AtCall(Cur) /\ NextCall(Cur) = "turnoff")
         => /\ stepCompleted'
            /\ ~running'
            /\ onCompleteCalls' = onCompleteCalls + 1
            /\ onErrorCalls' = onErrorCalls
            /\ onStepCalls' = onStepCalls + 1
            /\ thrown' = <<>>
            /\ (Step => lastStepRet' = <<FALSE>>)
            /\ ((Run \/ RunDelayElapsed) => runPc' = "idle")
            /\ executionStack' = SetTop(executionStack,
                                        [executionStack[Len(executionStack)]
                                           EXCEPT !.index = @ + 1])
            /\ TheWorld' = TheWorld]_vars
  /\ [][(stepCompleted /\ ~Reset)
         => /\ TheWorld' = TheWorld
            /\ executionStack' = executionStack
            /\ <<onStepCalls', onCompleteCalls', onErrorCalls'>>
                 = <<onStepCalls, onCompleteCalls, onErrorCalls>>
            /\ stepCompleted'
            /\ ((Step /\ ast.type # "null") => lastStepRet' = <<FALSE>>)]_vars
  /\ []((stepOnly /\ ast = ProgMove.ast /\ map = MapOpen /\ lastCall = "step"
           /\ lastStepRet = <<FALSE>>)
          => /\ karel.position = Pos(1, 2)
             /\ karel.facing = North
             /\ onCompleteCalls = 1 /\ onErrorCalls = 0 /\ onStepCalls = 2)
  /\ []((stepOnly /\ ast = ProgHalt.ast /\ lastCall = "step" /\ lastStepRet = <<FALSE>>)
          => /\ karel = Karel_turnLeft(initialKarel)
             /\ onCompleteCalls = 1 /\ onErrorCalls = 0 /\ onStepCalls = 3
             /\ Len(executionStack) = 4)

C13_Witness ==
  /\ stepOnly /\ lastCall = "step" /\ lastStepRet = <<FALSE>>
  /\ ast = ProgHalt.ast
  /\ onCompleteCalls = 1
  /\ Len(executionStack) = 4
  /\ executionStack[4].index < Len(executionStack[4].statements)

\* The diagnostics d hold one of severity error.
ErrorReported(d) == {i \in 1..Len(d) : d[i].severity = "error"} # {}

C15_LoadRebuilds ==
  [][(Load /\ ast'.type # "null")
       => LET a == step(Cur')
              b == step(load(Interpreter_new(TheWorld'), Parsed(ast', <<>>)))
          IN /\ a.ret = b.ret
             /\ a.thrown = b.thrown
             /\ a.state.world = b.state.world
             /\ a.state.executionStack = b.state.executionStack
             /\ a.state.stepCompleted = b.state.stepCompleted
             /\ a.state.iterationCount = b.state.iterationCount]_vars

\* The instructions executeCallSync handles itself.
BuiltIn == {"move", "turnleft", "pickbeeper", "putbeeper", "turnoff"}

\* The lowercased names the program loaded defines.
Defined == IF ast.type = "null" THEN {}
           ELSE {toLowerCase(ast.definitions[i].name) : i \in 1..Len(ast.definitions)}

\* C16: the custom-instruction table is empty when there is no AST and
\* otherwise holds one entry for each lowercased name the program loaded
\* defines, with the body of its last definition of that name, and nothing
\* else; a call of a name the program loaded does not define fails as an
\* unknown instruction even when an earlier program defined it, and a call
\* resolves whatever the case of its letters and of the definition's.
C16_InstructionTable ==
  /\ [](/\ {customInstructions[i][1] : i \in 1..Len(customInstructions)} = Defined
        /\ Cardinality(Defined) = Len(customInstructions)
        /\ \A i \in 1..Len(customInstructions) :
             LET last == CHOOSE j \in 1..Len(ast.definitions) :
                           /\ toLowerCase(ast.definitions[j].name) = customInstructions[i][1]
                           /\ \A k \in (j + 1)..Len(ast.definitions) :
                                toLowerCase(ast.definitions[k].name)
                                  # customInstructions[i][1]
             IN customInstructions[i][2] = ast.definitions[last].body)
  /\ [][((Step \/ ((Run \/ RunDelayElapsed) /\ running))
          /\ stepInitialized /\ ~stepCompleted /\ ast.type # "null"
          /\ iterationCount < maxIterations
          /\ AtCall(Cur) /\ NextCall(Cur) \notin BuiltIn)
         => IF NextCall(Cur) \in Defined
            THEN /\ onErrorCalls' = onErrorCalls
                 /\ Len(executionStack') = Len(executionStack) + 1
                 /\ \E i \in 1..Len(ast.definitions) :
                      executionStack'[Len(executionStack')]
                        = BlockFrame(ast.definitions[i].body.statements)
            ELSE /\ onErrorCalls' = onErrorCalls + 1
                 /\ lastError'[1].message = "unknownInstruction"
                 /\ executionStack' = SetTop(executionStack,
                                             [executionStack[Len(executionStack)]
                                                EXCEPT !.index = @ + 1])]_vars
  /\ []((stepOnly /\ (ast = ProgMixedCase.ast \/ ast = ProgTurnRight.ast)
           /\ lastCall = "step")
          => /\ onErrorCalls = 0
             /\ (lastStepRet = <<FALSE>>
                   => /\ karel.facing = RightTurnMap[initialKarel.facing]
                      /\ karel.position = initialKarel.position
                      /\ onCompleteCalls = 1))

C16_Witness ==
  /\ lastCall = "step"
  /\ ast = ProgMixedCase.ast
  /\ customInstructions = <<<<"turnright", ProgMixedCase.ast.definitions[1].body>>>>
  /\ onErrorCalls = 1
  /\ lastError[1].message = "unknownInstruction"

\* C17: reset() in any state leaves the Interpreter as a new one holding
\* the same program on a World just built from the same description: the
\* World of construction, no frame stack, flags and counts cleared; the
\* step() that follows does what the first step() of such an Interpreter
\* does.
C17_ResetReturnsToLoaded ==
  [][Reset
       => /\ TheWorld' = World_new(map).world
          /\ executionStack' = <<>>
          /\ ~stepInitialized' /\ ~stepCompleted' /\ ~running'
          /\ iterationCount' = 0
          /\ currentLine' = 0
          /\ ast' = ast /\ customInstructions' = customInstructions
          /\ LET a == step(Cur')
                 b == step(load(Interpreter_new(World_new(map).world),
                                Parsed(ast, <<>>)))
             IN /\ a.ret = b.ret
                /\ a.thrown = b.thrown
                /\ a.state.world = b.state.world
                /\ a.state.executionStack = b.state.executionStack
                /\ a.state.stepCompleted = b.state.stepCompleted
                /\ a.state.iterationCount = b.state.iterationCount
                /\ a.state.currentLine = b.state.currentLine
                /\ a.state.onStepCalls = b.state.onStepCalls]_vars

C17_Witness ==
  /\ lastCall = "reset"
  /\ ast.type # "null"
  /\ ~stepInitialized
  /\ runPc = "delay"
  /\ step(Cur).state.world # TheWorld

\* The delay asked for, brought into [50, 2000].
Clamped(ms) == IF ms < 50 THEN 50 ELSE IF ms > 2000 THEN 2000 ELSE ms

\* C18: the delay stored, and every delay run() waits for, lies in
\* [50, 2000]; a new Interpreter has 500; setSpeed(ms) stores ms brought into
\* [50, 2000], which is min(2000, max(50, ms)), for every integer ms between
\* -MaxMs and MaxMs; nothing but setSpeed changes the delay stored.
C18_SpeedClamped ==
  /\ [](executionSpeed \in 50..2000)
  /\ [](delayMs # <<>> => delayMs[1] \in 50..2000)
  /\ [](Interpreter_new(TheWorld).executionSpeed = 500)
  /\ [](\A ms \in (-MaxMs)..MaxMs :
          LET stored == setSpeed(Cur, ms).executionSpeed IN
          /\ stored = Clamped(ms)
          /\ stored = Min(2000, Max(50, ms))
          /\ setSpeed(Cur, ms) = [Cur EXCEPT !.executionSpeed = stored])
  /\ [][SetSpeed => \E ms \in SpeedInputs : executionSpeed' = Clamped(ms)]_vars
  /\ [][(~SetSpeed) => executionSpeed' = executionSpeed]_vars
  /\ [][(runPc' = "delay" /\ (Run \/ RunDelayElapsed)) => delayMs' = <<executionSpeed>>]_vars

C18_Witness ==
  /\ executionSpeed = 50
  /\ runPc = "delay"
  /\ delayMs = <<2000>>
  /\ lastCall = "setSpeed"

\* The cell in front of the robot, from its position and facing.
Ahead ==
  Pos(karel.position.x + (IF karel.facing = East THEN 1
                          ELSE IF karel.facing = West THEN -1 ELSE 0),
      karel.position.y + (IF karel.facing = North THEN 1
                          ELSE IF karel.facing = South THEN -1 ELSE 0))

\* The map registers a wall between cells a and b, in either order.
Walled(a, b) ==
  \E i \in 1..Len(map.walls) :
    \/ map.walls[i].from = a /\ map.walls[i].to = b
    \/ map.walls[i].from = b /\ map.walls[i].to = a

\* C19: move() succeeds exactly when the cell ahead is inside the grid and
\* no wall is registered between the robot's cell and it; it then puts the
\* robot on that cell, sets the modified flag and changes nothing else;
\* otherwise it throws the blocked-path error and changes nothing.
C19_MoveIffFree ==
  LET free == /\ Ahead.x \in 1..dimensions.width
              /\ Ahead.y \in 1..dimensions.height
              /\ ~Walled(karel.position, Ahead)
      r == World_move(TheWorld)
  IN /\ (r.thrown = <<>>) <=> free
     /\ free => r.world = [TheWorld EXCEPT !.karel.position = Ahead,
                                           !.isModified = TRUE]
     /\ (~free) => (r.thrown = <<Error("moveBlocked")>> /\ r.world = TheWorld)
     /\ (lastCall = "move" /\ thrown = <<>>) => isModified

C19_Witness ==
  /\ lastCall = "move" /\ thrown = <<>>
  /\ karel.position # initialKarel.position
  /\ Len(walls) > 0
  /\ Walled(karel.position, Pos(karel.position.x, karel.position.y - 1))
  /\ ~World_move([TheWorld EXCEPT !.karel.facing = South]).thrown = <<>>

RECURSIVE Total(_, _)
\* The beepers on the cells of the entries i.. of a beeper map.
Total(m, i) == IF i > Len(m) THEN 0 ELSE m[i][2] + Total(m, i + 1)

\* The count on the robot's cell, read from the entries of the beeper map.
Here ==
  IF \E i \in 1..Len(beepers) : beepers[i][1] = <<karel.position.x, karel.position.y>>
  THEN beepers[CHOOSE i \in 1..Len(beepers) :
                 beepers[i][1] = <<karel.position.x, karel.position.y>>][2]
  ELSE 0

\* C20: no entry of the beeper map has a count of zero or less, no cell has
\* two entries, the bag count is never negative and the beepers of the World
\* and the bag together stay as many as at construction; pickBeeper() on a
\* cell without beeper and putBeeper() with an empty bag throw and change
\* nothing; otherwise one beeper goes from the cell to the bag, or from the
\* bag to the cell, the modified flag is set and nothing else changes.
C20_BeeperTransfer ==
  LET p == World_pickBeeper(TheWorld)
      q == World_putBeeper(TheWorld)
      c == World_new(map).world
      Moved(w, cell, bag) ==
        /\ WorldState(w) = [WorldState(TheWorld) EXCEPT
                              !.counts[karel.position] = @ + cell,
                              !.beepersInBag = @ + bag]
        /\ w = [TheWorld EXCEPT !.karel.beepersInBag = @ + bag,
                                !.beepers = w.beepers,
                                !.isModified = TRUE]
  IN /\ \A i \in 1..Len(beepers) : beepers[i][2] > 0
     /\ \A i, j \in 1..Len(beepers) : beepers[i][1] = beepers[j][1] => i = j
     /\ karel.beepersInBag >= 0
     /\ Total(beepers, 1) + karel.beepersInBag
          = Total(c.beepers, 1) + c.karel.beepersInBag
     /\ IF Here = 0
        THEN p.thrown = <<Error("noBeepersToPickUp")>> /\ p.world = TheWorld
        ELSE p.thrown = <<>> /\ Moved(p.world, -1, 1)
     /\ IF karel.beepersInBag = 0
        THEN q.thrown = <<Error("noBeepersInBag")>> /\ q.world = TheWorld
        ELSE q.thrown = <<>> /\ Moved(q.world, 1, -1)
     /\ \A i \in 1..Len(p.world.beepers) : p.world.beepers[i][2] > 0

C20_Witness ==
  /\ lastCall = "pickBeeper" /\ thrown = <<>>
  /\ Len(beepers) < Len(initialBeepers)
  /\ Here = 0
  /\ karel.beepersInBag > initialKarel.beepersInBag

\* The cell next to the robot's on the side of facing d.
Beside(d) ==
  Pos(karel.position.x + (IF d = East THEN 1 ELSE IF d = West THEN -1 ELSE 0),
      karel.position.y + (IF d = North THEN 1 ELSE IF d = South THEN -1 ELSE 0))

\* The robot can pass to the cell on the side of facing d.
Open(d) ==
  /\ Beside(d).x \in 1..dimensions.width
  /\ Beside(d).y \in 1..dimensions.height
  /\ ~Walled(karel.position, Beside(d))

\* The facing k quarter turns to the left of the robot's.
Quarter(k) == Cycle[((CycleIndex(karel.facing) - 1 + k) % 4) + 1]

\* What each condition name means, in lower case, in the current World.
Meaning(c) ==
  CASE c = "front-is-clear" -> Open(Quarter(0))
    [] c = "front-is-blocked" -> ~Open(Quarter(0))
    [] c = "left-is-clear" -> Open(Quarter(1))
    [] c = "left-is-blocked" -> ~Open(Quarter(1))
    [] c = "right-is-clear" -> Open(Quarter(3))
    [] c = "right-is-blocked" -> ~Open(Quarter(3))
    [] c = "next-to-a-beeper" -> Here > 0
    [] c = "not-next-to-a-beeper" -> Here = 0
    [] c = "facing-north" -> karel.facing = North
    [] c = "not-facing-north" -> karel.facing # North
    [] c = "facing-south" -> karel.facing = South
    [] c = "not-facing-south" -> karel.facing # South
    [] c = "facing-east" -> karel.facing = East
    [] c = "not-facing-east" -> karel.facing # East
    [] c = "facing-west" -> karel.facing = West
    [] c = "not-facing-west" -> karel.facing # West
    [] c = "beeper-in-bag" -> karel.beepersInBag > 0

\* The pairs of names that are each other's negation.
Opposites ==
  {<<"front-is-clear", "front-is-blocked">>, <<"left-is-clear", "left-is-blocked">>,
   <<"right-is-clear", "right-is-blocked">>,
   <<"next-to-a-beeper", "not-next-to-a-beeper">>,
   <<"facing-north", "not-facing-north">>, <<"facing-south", "not-facing-south">>,
   <<"facing-east", "not-facing-east">>, <<"facing-west", "not-facing-west">>}

\* The lower-case spelling of the names asked in another letter case.
Lowered ==
  {<<"Front-Is-Clear", "front-is-clear">>, <<"LEFT-IS-BLOCKED", "left-is-blocked">>,
   <<"Not-Facing-East", "not-facing-east">>, <<"BEEPER-IN-BAG", "beeper-in-bag">>}

\* The lower-case spelling of a name evaluateCondition knows.
Spelled(n) ==
  IF \E l \in Lowered : l[1] = n THEN (CHOOSE l \in Lowered : l[1] = n)[2] ELSE n

\* C21: in every World state evaluateCondition returns, for each of its
\* seventeen names, the value of the sensing predicate the name stands for
\* or of its negation, so the two names of a pair return opposite values;
\* a name in another letter case returns what its lower-case spelling
\* returns; any other name throws the unknown-condition error; what a call
\* returned is that value, and the call leaves the World and its modified
\* flag as they were.
C21_EvaluateCondition ==
  /\ [](/\ Cardinality(WorldConditions) = 17
        /\ \A c \in WorldConditions :
             evaluateCondition(TheWorld, c) = [ret |-> Meaning(c), thrown |-> <<>>]
        /\ \A o \in Opposites :
             evaluateCondition(TheWorld, o[1]).ret
               = ~evaluateCondition(TheWorld, o[2]).ret
        /\ \A l \in Lowered :
             evaluateCondition(TheWorld, l[1]) = evaluateCondition(TheWorld, l[2])
        /\ \A n \in ConditionNames \ (WorldConditions \cup {l[1] : l \in Lowered}) :
             evaluateCondition(TheWorld, n).thrown = <<Error("Unknown condition")>>
        /\ lastCall = "evaluateCondition" /\ thrown = <<>>
             => sensed[1].ret = Meaning(Spelled(sensed[1].name)))
  /\ [][lastCall' = "evaluateCondition" => TheWorld' = TheWorld]_vars

C21_Witness ==
  /\ lastCall = "evaluateCondition"
  /\ sensed = <<[ret |-> TRUE, name |-> "LEFT-IS-BLOCKED"]>>
  /\ isModified
  /\ evaluateCondition(TheWorld, "right-is-clear").ret
  /\ Len(walls) > 0 /\ Here > 0

\* The Manhattan distance between two cells.
Manhattan(a, b) ==
  (IF a.x < b.x THEN b.x - a.x ELSE a.x - b.x)
    + (IF a.y < b.y THEN b.y - a.y ELSE a.y - b.y)

\* The walls of a description are all between cells one apart.
WellWalled(m) ==
  \A i \in 1..Len(m.walls) : Manhattan(m.walls[i].from, m.walls[i].to) = 1

\* The two cells of entry i of the wall set.
WallCells(i) == <<Pos(walls[i][1], walls[i][2]), Pos(walls[i][3], walls[i][4])>>

\* C22: every wall of the wall set is between two cells at Manhattan
\* distance 1, is there once and is reported by hasWall in both directions;
\* addWall between two cells that are not at distance 1 throws the
\* invalid-wall error and leaves the set as it is; between two cells at
\* distance 1 it leaves one wall, the same whichever the order of the cells
\* and however often it is added; a World is constructed from a description
\* exactly when all its walls are between cells at distance 1, and when it
\* is not the World of before is kept.
C22_WallsAdjacent ==
  /\ [](/\ \A i \in 1..Len(walls) :
             /\ Manhattan(WallCells(i)[1], WallCells(i)[2]) = 1
             /\ hasWall(TheWorld, WallCells(i)[1], WallCells(i)[2])
             /\ hasWall(TheWorld, WallCells(i)[2], WallCells(i)[1])
             /\ \A j \in 1..Len(walls) :
                  Members(WallCells(i)) = Members(WallCells(j)) => i = j
        /\ \A a \in WallEnds, b \in WallEnds :
             /\ hasWall(TheWorld, a, b) = hasWall(TheWorld, b, a)
             /\ IF Manhattan(a, b) = 1
                THEN /\ addWall(walls, a, b).thrown = <<>>
                     /\ addWall(walls, a, b).walls = addWall(walls, b, a).walls
                     /\ addWall(addWall(walls, a, b).walls, b, a).walls
                          = addWall(walls, a, b).walls
                     /\ Len(addWall(walls, a, b).walls)
                          = Len(walls) + (IF hasWall(TheWorld, a, b) THEN 0 ELSE 1)
                ELSE addWall(walls, a, b)
                       = [walls |-> walls, thrown |-> <<Error("invalidWall")>>]
        /\ \A m \in WallMaps : (World_new(m).thrown = <<>>) = WellWalled(m)
        /\ lastCall = "addWall"
             => (thrown = <<>> \/ thrown = <<Error("invalidWall")>>)
        /\ lastCall = "fromJSON" /\ thrown = <<>> => TheWorld = World_new(map).world)
  /\ [][lastCall' \in {"addWall", "fromJSON"} /\ thrown' # <<>>
         => TheWorld' = TheWorld /\ map' = map]_vars

C22_Witness ==
  /\ lastCall = "addWall" /\ thrown = <<Error("invalidWall")>>
  /\ Len(walls) = 3
  /\ map \in WallMaps \ Maps
  /\ hasWall(TheWorld, Pos(2, 1), Pos(3, 1))
  /\ ~hasWall(TheWorld, Pos(1, 1), Pos(2, 1))

\* The tokens of the text of the document.
Tokens == tokenize(source)

\* The entries of a sequence that satisfy a test, counted.
Count(s, Test(_)) == Cardinality({i \in 1..Len(s) : Test(s[i])})

RECURSIVE CallsAmong(_, _)
\* The call nodes of a node of the tree, in source order.
CallsOf(node) ==
  CASE node.type = "call" -> <<node>>
    [] node.type = "block" -> CallsAmong(node.statements, 1)
    [] node.type = "if" ->
         CallsAmong(node.thenBranch.statements, 1)
           \o (IF node.elseBranch = <<>> THEN <<>>
               ELSE CallsAmong(node.elseBranch[1].statements, 1))
    [] node.type \in {"while", "iterate", "define"} ->
         CallsAmong(node.body.statements, 1)
    [] node.type = "program" ->
         CallsAmong(node.definitions, 1) \o CallsAmong(node.execution.statements, 1)
    [] OTHER -> <<>>

\* The call nodes of the nodes i.. of a sequence of nodes.
CallsAmong(nodes, i) ==
  IF i > Len(nodes) THEN <<>> ELSE CallsOf(nodes[i]) \o CallsAmong(nodes, i + 1)

\* The diagnostics of the last parse with the message given.
Reported(message) == SelectSeq(parseResult[1].diagnostics, LAMBDA d : d.message = message)

\* The token types after which a call needs no semicolon.
Closers == {"SEMICOLON", "END", "ELSE", "END-OF-EXECUTION"}

\* A parser on the tokens given, about to read token k.
ParserAt(toks, k) == [Parser_new(toks) EXCEPT !.current = k - 1]

\* Every token of line n other than a semicolon is a call among those
\* given, and no semicolon of it is.
CallsOnly(toks, calls, n) ==
  /\ Count(toks, LAMBDA tok : tok.line = n /\ tok.type # "SEMICOLON")
       = Count(calls, LAMBDA c : c.line = n)
  /\ \A i \in 1..Len(toks) :
       toks[i].line = n /\ toks[i].type # "SEMICOLON"
         => Count(calls, LAMBDA c : c.line = n /\ c.name = toks[i].value) > 0
  /\ Count(calls, LAMBDA c : c.line = n /\ c.name = ";") = 0

\* C23: parseInstructionCall, at any token of the document, returns the
\* call node of that token without throwing, reports a missing semicolon
\* at the line of the call exactly when the next token is none of
\* semicolon, END, ELSE and END-OF-EXECUTION, and leaves the cursor after
\* the call, and after a semicolon that follows it; in a parse that returns
\* a tree, a line made of calls has as many missing-semicolon diagnostics
\* as calls followed by none of these tokens, and the diagnostic that ends
\* a parse without tree is never this one.
C23_MissingSemicolon ==
  parseResult # <<>> =>
    \A toks \in {Tokens} :
      /\ \A k \in 1..(Len(toks) - 1) :
           \A r \in {parseInstructionCall(ParserAt(toks, k))} :
             /\ r.thrown = <<>>
             /\ r.node = Call(toks[k].value, toks[k].line)
             /\ SelectSeq(r.parser.diagnostics,
                          LAMBDA d : d.message = "missingSemicolon")
                  = IF toks[k + 1].type \in Closers THEN <<>>
                    ELSE <<Diag("missingSemicolon", toks[k].line)>>
             /\ r.parser.current = IF toks[k + 1].type = "SEMICOLON" THEN k + 1 ELSE k
      /\ IF parseResult[1].ast.type = "null"
         THEN parseResult[1].diagnostics[Len(parseResult[1].diagnostics)].message
                # "missingSemicolon"
         ELSE \A calls \in {CallsOf(parseResult[1].ast)} :
                \A n \in 1..Len(source) :
                  CallsOnly(toks, calls, n)
                    => Count(Reported("missingSemicolon"), LAMBDA d : d.line = n)
                         = Cardinality({i \in 1..(Len(toks) - 1) :
                                         /\ toks[i].line = n
                                         /\ toks[i].type # "SEMICOLON"
                                         /\ toks[i + 1].type \notin Closers})

C23_Witness ==
  /\ parseResult # <<>>
  /\ parseResult[1].ast.type = "program"
  /\ Reported("missingSemicolon") = <<Diag("missingSemicolon", 13)>>
  /\ CallsOnly(Tokens, CallsOf(parseResult[1].ast), 13)
  /\ CallsOnly(Tokens, CallsOf(parseResult[1].ast), 10)
  /\ Count(Tokens, LAMBDA tok : tok.line = 13) = 2
  /\ Count(Tokens, LAMBDA tok : tok.line = 10 /\ tok.type = "SEMICOLON") = 1
  /\ Len(CallsOf(parseResult[1].ast)) = 9

\* The lines of the calls among those given whose name, in lower case, is
\* neither a built-in nor one of the names declared.
UnknownLines(calls, declared) ==
  [i \in 1..Len(SelectSeq(calls, LAMBDA c :
                     toLowerCase(c.name)
                       \notin {"move", "turnleft", "pickbeeper", "putbeeper", "turnoff"}
                                 \cup declared))
     |-> SelectSeq(calls, LAMBDA c :
                     toLowerCase(c.name)
                       \notin {"move", "turnleft", "pickbeeper", "putbeeper", "turnoff"}
                                 \cup declared)[i].line]

\* The names, in lower case, of the first i definitions of a tree.
DeclaredBy(tree, i) == {toLowerCase(tree.definitions[j].name) : j \in 1..i}

RECURSIVE UnknownInDefinitions(_, _)
\* The lines of the calls, in the definitions i.. of a tree, of what is
\* neither built in nor declared by then.
UnknownInDefinitions(tree, i) ==
  IF i > Len(tree.definitions) THEN <<>>
  ELSE UnknownLines(CallsOf(tree.definitions[i]), DeclaredBy(tree, i))
         \o UnknownInDefinitions(tree, i + 1)

\* C24: a parse that returns a tree reports, in source order, one
\* unknown-instruction diagnostic for each call of the tree whose name, in
\* lower case, is neither one of the five built-ins nor the name of an
\* instruction declared by then, at the line of the call, and none for any
\* other call: none for a call of the execution block to an instruction the
\* program declares; the diagnostic that ends a parse without tree is never
\* this one.
C24_UnknownInstruction ==
  parseResult # <<>> =>
    \A tree \in {parseResult[1].ast} :
      IF tree.type = "null"
      THEN parseResult[1].diagnostics[Len(parseResult[1].diagnostics)].message
             # "unknownInstruction"
      ELSE /\ [i \in 1..Len(Reported("unknownInstruction"))
                 |-> Reported("unknownInstruction")[i].line]
               = UnknownInDefinitions(tree, 1)
                   \o UnknownLines(CallsAmong(tree.execution.statements, 1),
                                   DeclaredBy(tree, Len(tree.definitions)))
           /\ \A c \in Members(CallsAmong(tree.execution.statements, 1)) :
                toLowerCase(c.name) \in DeclaredBy(tree, Len(tree.definitions))
                  => \A d \in Members(Reported("unknownInstruction")) :
                       d.line # c.line
                         \/ \E o \in Members(CallsOf(tree)) :
                              o.line = c.line /\ o.name # c.name

C24_Witness ==
  /\ parseResult # <<>>
  /\ parseResult[1].ast.type = "program"
  /\ Len(parseResult[1].ast.definitions) = 2
  /\ Reported("unknownInstruction")
       = <<Diag("unknownInstruction", 4), Diag("unknownInstruction", 15)>>
  /\ parseResult[1].diagnostics = Reported("unknownInstruction")
  /\ \E c \in Members(CallsOf(parseResult[1].ast)) : c = Call("TURNAROUND", 9)

\* The messages of the diagnostics the parser goes on after.
NonFatal == {"unknownInstruction", "missingSemicolon", "missingTurnoff"}

\* Token k of the tokens given has the type given.
TypeAt(toks, k, type) == k <= Len(toks) /\ toks[k].type = type

\* The tokens given have none of the type given.
Lacks(toks, type) == \A k \in 1..Len(toks) : toks[k].type # type

\* A structural violation that shows in the tokens alone: a marker of the
\* program or of the execution is missing, an IF or a WHILE has no
\* condition or an ITERATE no number after it, one of the three has no
\* BEGIN where its block starts, or fewer END than BEGIN are written.
Violated(toks) ==
  \/ toks[1].type # "BEGINNING-OF-PROGRAM"
  \/ \E type \in {"BEGINNING-OF-EXECUTION", "END-OF-EXECUTION", "END-OF-PROGRAM"} :
       Lacks(toks, type)
  \/ \E k \in 1..Len(toks) :
       \/ toks[k].type \in {"IF", "WHILE"} /\ ~TypeAt(toks, k + 1, "CONDITION")
       \/ toks[k].type = "ITERATE" /\ ~TypeAt(toks, k + 1, "NUMBER")
       \/ toks[k].type \in {"IF", "WHILE", "ITERATE"} /\ ~TypeAt(toks, k + 3, "BEGIN")
  \/ Count(toks, LAMBDA tok : tok.type = "BEGIN")
       > Count(toks, LAMBDA tok : tok.type = "END")

\* C25: a parse returns no tree exactly when the last of its diagnostics is
\* a fatal one, and that one is the only fatal one of the list: every
\* diagnostic before it is of a kind the parser goes on after. A document
\* with a structural violation that shows in its tokens has no tree, and
\* one that does not start with the program marker has the diagnostic for
\* it, at the line of its first token, and no other. The list keeps the
\* order of discovery: the fatal diagnostic is at the line of a token or of
\* the end of input, the diagnostics about calls go by increasing line, and
\* the one about turnoff comes after them.
C25_StructuralAbort ==
  parseResult # <<>> =>
    \A toks \in {Tokens} : \A ds \in {parseResult[1].diagnostics} :
      /\ parseResult[1].ast.type = "null"
           <=> (ds # <<>> /\ ds[Len(ds)].message \notin NonFatal)
      /\ \A i \in 1..(Len(ds) - 1) : ds[i].message \in NonFatal
      /\ Violated(toks) => parseResult[1].ast.type = "null"
      /\ toks[1].type # "BEGINNING-OF-PROGRAM"
           => ds = <<Diag("missingProgramStart", toks[1].line)>>
      /\ parseResult[1].ast.type = "null"
           => \E k \in 1..Len(toks) : toks[k].line = ds[Len(ds)].line
      /\ \A i, j \in 1..Len(ds) :
           i < j /\ ds[i].message \in NonFatal /\ ds[j].message \in NonFatal
             => IF ds[j].message = "missingTurnoff" THEN ds[i].message # "missingTurnoff"
                ELSE ds[i].message # "missingTurnoff" /\ ds[i].line <= ds[j].line

C25_Witness ==
  /\ parseResult # <<>>
  /\ parseResult[1].ast.type = "null"
  /\ Len(parseResult[1].diagnostics) >= 3
  /\ parseResult[1].diagnostics[1] = Diag("unknownInstruction", 15)
  /\ parseResult[1].diagnostics[Len(parseResult[1].diagnostics)].message = "unmatchedBegin"
  /\ Count(Tokens, LAMBDA tok : tok.type = "BEGIN")
       > Count(Tokens, LAMBDA tok : tok.type = "END")

\* The statements given end on a call of turnoff, in whatever case.
Terminated(statements) ==
  /\ statements # <<>>
  /\ statements[Len(statements)].type = "call"
  /\ statements[Len(statements)].name \in {"turnoff", "TurnOff", "TURNOFF"}

\* C26: a parse that returns a tree reports the missing turnoff exactly
\* when the last statement of the execution block is not a call of turnoff
\* in whatever case, an empty block and a turnoff inside a nested block
\* included, once, at the line before that of the END-OF-EXECUTION the
\* parser was at. A parse that returns no tree reports it at most once, and
\* then only as its last diagnostic before the fatal one, which is about
\* the end of the execution block, at the line before the one the parser
\* was at, or about the end of the program.
C26_MissingTurnoff ==
  parseResult # <<>> =>
    \A toks \in {Tokens} : \A ds \in {parseResult[1].diagnostics} :
      IF parseResult[1].ast.type = "program"
      THEN IF Terminated(parseResult[1].ast.execution.statements)
           THEN Reported("missingTurnoff") = <<>>
           ELSE /\ Len(Reported("missingTurnoff")) = 1
                /\ ds[Len(ds)].message = "missingTurnoff"
                /\ \E k \in 1..(Len(toks) - 1) :
                     /\ toks[k].type = "END-OF-EXECUTION"
                     /\ toks[k + 1].type = "END-OF-PROGRAM"
                     /\ ds[Len(ds)].line = toks[k].line - 1
      ELSE /\ Len(Reported("missingTurnoff")) <= 1
           /\ Reported("missingTurnoff") # <<>>
                => /\ Len(ds) >= 2
                   /\ ds[Len(ds) - 1].message = "missingTurnoff"
                   /\ \/ /\ ds[Len(ds)].message = "missingExecutionEnd"
                         /\ ds[Len(ds) - 1].line = ds[Len(ds)].line - 1
                      \/ /\ ds[Len(ds)].message = "missingProgramEnd"
                         /\ ds[Len(ds) - 1].line < ds[Len(ds)].line

C26_Witness ==
  /\ parseResult # <<>>
  /\ parseResult[1].ast.type = "program"
  /\ Len(parseResult[1].ast.execution.statements) = 2
  /\ parseResult[1].ast.execution.statements[2].type = "if"
  /\ \E c \in Members(CallsOf(parseResult[1].ast.execution.statements[2])) :
       c.name = "turnoff"
  /\ parseResult[1].diagnostics = <<Diag("missingTurnoff", 7)>>

RECURSIVE IteratesAmong(_, _)
\* The iterate nodes of a node of the tree, in source order.
IteratesOf(node) ==
  CASE node.type = "iterate" -> <<node>> \o IteratesAmong(node.body.statements, 1)
    [] node.type = "block" -> IteratesAmong(node.statements, 1)
    [] node.type = "if" ->
         IteratesAmong(node.thenBranch.statements, 1)
           \o (IF node.elseBranch = <<>> THEN <<>>
               ELSE IteratesAmong(node.elseBranch[1].statements, 1))
    [] node.type \in {"while", "define"} -> IteratesAmong(node.body.statements, 1)
    [] node.type = "program" ->
         IteratesAmong(node.definitions, 1)
           \o IteratesAmong(node.execution.statements, 1)
    [] OTHER -> <<>>

\* The iterate nodes of the nodes i.. of a sequence of nodes.
IteratesAmong(nodes, i) ==
  IF i > Len(nodes) THEN <<>>
  ELSE IteratesOf(nodes[i]) \o IteratesAmong(nodes, i + 1)

\* C27: every iterate node of a tree that parse returns has a count of at
\* least one; the document whose ITERATE is followed by a zero has no
\* tree and the diagnostic about the count.
C27_IteratePositive ==
  parseResult # <<>> =>
    /\ \A n \in Members(IteratesOf(parseResult[1].ast)) : n.count \in Nat \ {0}
    /\ (\E k \in 1..(Len(Tokens) - 1) :
          Tokens[k].type = "ITERATE" /\ Tokens[k + 1].value = "0")
         => /\ parseResult[1].ast.type = "null"
            /\ Reported("invalidIterateCount") # <<>>

\* The spellings, among the words of the documents, of the keywords and the
\* built-in instructions, each with the type of its token.
KeywordSpellings ==
  {<<"BEGINNING-OF-PROGRAM", "BEGINNING-OF-PROGRAM">>,
   <<"END-OF-PROGRAM", "END-OF-PROGRAM">>,
   <<"BEGINNING-OF-EXECUTION", "BEGINNING-OF-EXECUTION">>,
   <<"END-OF-EXECUTION", "END-OF-EXECUTION">>,
   <<"DEFINE-NEW-INSTRUCTION", "DEFINE-NEW-INSTRUCTION">>, <<"AS", "AS">>,
   <<"BEGIN", "BEGIN">>, <<"begin", "BEGIN">>, <<"END", "END">>, <<"End", "END">>,
   <<"IF", "IF">>, <<"THEN", "THEN">>, <<"ELSE", "ELSE">>,
   <<"WHILE", "WHILE">>, <<"DO", "DO">>,
   <<"ITERATE", "ITERATE">>, <<"iterate", "ITERATE">>, <<"TIMES", "TIMES">>,
   <<"move", "move">>, <<"Move", "move">>, <<"turnleft", "turnleft">>,
   <<"pickbeeper", "pickbeeper">>, <<"turnoff", "turnoff">>, <<"TurnOff", "turnoff">>}

\* The string is made of decimal digits, and of one at least.
AllDigits(value) ==
  /\ Len(value) > 0
  /\ \A i \in 1..Len(value) :
       SubSeq(value, i, i) \in {"0", "1", "2", "3", "4", "5", "6", "7", "8", "9"}

\* The type of the token of a word, by the precedence of the classes.
Class(value) ==
  IF \E s \in KeywordSpellings : s[1] = value
  THEN (CHOOSE s \in KeywordSpellings : s[1] = value)[2]
  ELSE IF AllDigits(value) THEN "NUMBER"
       ELSE IF value \in WorldConditions \cup {"Front-Is-Clear"} THEN "CONDITION"
            ELSE "IDENTIFIER"

\* The pieces of a line that are not white space.
Ink(line) == SelectSeq(line, LAMBDA piece : piece \notin {" ", "\t"})

\* The number of tabs a line starts with.
Tabs(line) ==
  IF \E i \in 1..Len(line) : line[i] # "\t"
  THEN (CHOOSE i \in 1..Len(line) :
          line[i] # "\t" /\ \A j \in 1..(i - 1) : line[j] = "\t") - 1
  ELSE Len(line)

\* The line produces no token: it is blank, or a comment.
Silent(line) == Ink(line) = <<>> \/ Head(Ink(line)) = "//"

RECURSIVE Values(_)
\* The values of the tokens given, one after the other.
Values(toks) == IF toks = <<>> THEN "" ELSE Head(toks).value \o Values(Tail(toks))

\* C28: the tokens of a document end with one end-of-input token, the only
\* one, at the number of lines of the document; a token is a semicolon or
\* has the type of its word by the precedence keywords and built-ins in
\* whatever case, then numbers, then the seventeen conditions in whatever
\* case, then identifiers; the tokens go by increasing line; a blank line
\* and a line that starts with the comment marker have no token, and the
\* tokens of any other line are its text without the white space, with
\* the number of tabs the line starts with as their indent.
C28_Lexer ==
  \A toks \in {Tokens} :
    /\ toks # <<>>
    /\ toks[Len(toks)] = Token("EOF", "", Len(source), 0)
    /\ \A k \in 1..(Len(toks) - 1) :
         /\ toks[k].type # "EOF"
         /\ toks[k].line \in 1..Len(source)
         /\ toks[k].line <= toks[k + 1].line
         /\ toks[k].indent = Tabs(source[toks[k].line])
         /\ \/ toks[k].type = "SEMICOLON" /\ toks[k].value = ";"
            \/ toks[k].type = Class(toks[k].value)
    /\ \A n \in 1..Len(source) :
         Values(SelectSeq(toks, LAMBDA tok : tok.line = n /\ tok.type # "EOF"))
           = IF Silent(source[n]) THEN "" ELSE Join(Ink(source[n]))

C28_Witness ==
  /\ edits = 1
  /\ \E n \in 1..Len(source) : Len(Ink(source[n])) > 1 /\ Head(Ink(source[n])) = "//"
  /\ \E n \in 1..Len(source) : source[n] # <<>> /\ Ink(source[n]) = <<>>
  /\ \E k \in 1..Len(Tokens) : Tokens[k].type = "NUMBER" /\ Tokens[k].value = "20"
  /\ \E k \in 1..Len(Tokens) : Tokens[k].type = "ITERATE" /\ Tokens[k].value = "iterate"
  /\ \E k \in 1..Len(Tokens) : Tokens[k].type = "move" /\ Tokens[k].value = "Move"
  /\ \E k \in 1..Len(Tokens) :
       Tokens[k].type = "CONDITION" /\ Tokens[k].value = "Front-Is-Clear"

RECURSIVE Live(_)
\* A stack without the block frames on top of it that are at their end.
Live(stack) ==
  IF stack = <<>> THEN <<>>
  ELSE IF stack[Len(stack)].type = "block"
            /\ stack[Len(stack)].index >= Len(stack[Len(stack)].statements)
       THEN Live(SubSeq(stack, 1, Len(stack) - 1))
       ELSE stack

\* The stack the next step starts its work on: the one step() and run()
\* build when there is none, else the one there is without the frames at
\* their end.
Pending ==
  IF ast.type = "null" THEN <<>>
  ELSE IF ~stepInitialized THEN <<BlockFrame(ast.execution.statements)>>
       ELSE Live(executionStack)

\* The transitions of the interpreter before it reaches the statement of
\* the pending stack.
Pops == IF stepInitialized THEN Len(executionStack) - Len(Pending) ELSE 0

\* The frame on top of the pending stack.
TopFrame == Pending[Len(Pending)]

\* The statement the interpreter executes next is an if statement.
AtIf ==
  /\ stepInitialized => ~stepCompleted
  /\ Pending # <<>>
  /\ TopFrame.type = "block"
  /\ TopFrame.index < Len(TopFrame.statements)
  /\ TopFrame.statements[TopFrame.index + 1].type = "if"

\* The if statement executed next.
TheIf == TopFrame.statements[TopFrame.index + 1]

\* The statements of the branch the World selects now.
Taken ==
  IF Meaning(Spelled(TheIf.condition)) THEN TheIf.thenBranch.statements
  ELSE IF TheIf.elseBranch # <<>> THEN TheIf.elseBranch[1].statements
       ELSE <<>>

\* The pending stack with the cursor of its top frame moved by one.
Past == [Pending EXCEPT ![Len(Pending)].index = @ + 1]

\* C29: the step that executes an if statement, short of the ceiling,
\* selects the branch by the condition in the World as the step finds it.
\* When the branch selected starts with a call of a built-in, that call is
\* the one visible step of the transition, and the stack it leaves is the
\* one of before with the cursor past the if and, on top, the frame of the
\* branch selected with its cursor past the call, and no other frame,
\* whatever the call made of the condition. When nothing is selected, no
\* call of the if statement is executed and the cursor of the frame is
\* past the if and past what was executed after it.
C29_IfOnce ==
  [][AtIf /\ iterationCount' > (IF stepInitialized THEN iterationCount ELSE 0)
          /\ (IF stepInitialized THEN iterationCount ELSE 0) + Pops + 2 <= maxIterations
       => IF Taken # <<>>
          THEN Taken[1].type = "call"
                 /\ Taken[1].name \in {"move", "turnleft", "pickbeeper", "putbeeper"}
               => /\ onStepCalls' = onStepCalls + 1
                  /\ currentLine' = Taken[1].line
                  /\ executionStack'
                       = Append(Past, [BlockFrame(Taken) EXCEPT !.index = 1])
          ELSE onErrorCalls' = onErrorCalls
               => /\ onStepCalls' <= onStepCalls + 1
                  /\ \A c \in Members(CallsOf(TheIf)) : currentLine' # c.line
                  /\ Len(executionStack') >= Len(Pending)
                       => executionStack'[Len(Pending)].index > TopFrame.index + 1
    ]_vars

\* The if statement was true and its body made it false: the else branch
\* is not on the stack, and the cursor is past the if.
C29_Witness ==
  /\ lastCall = "step"
  /\ lastStepRet = <<TRUE>>
  /\ onStepCalls = 1
  /\ currentLine = 4
  /\ ~Meaning("next-to-a-beeper")
  /\ executionStack
       = <<[BlockFrame(ProgIf.ast.execution.statements) EXCEPT !.index = 1],
           [BlockFrame(<<Call("pickbeeper", 4)>>) EXCEPT !.index = 1]>>

\* C30: the error delivered to onError carries a line, the line of the call
\* executed last: the call that failed or was unknown, or, for the error
\* of the ceiling, the call executed most recently; and a transition
\* delivers at most one error.
C30_ErrorLine ==
  /\ [](lastError # <<>> => lastError[1].line = <<currentLine>>)
  /\ [][onErrorCalls' <= onErrorCalls + 1]_vars

\* C31: with no tree loaded and no run() suspended, a call of step(), of
\* run() or of initializeStepMode() throws the program-not-loaded error and
\* leaves the World, the frame stack and the initialized and completed
\* flags as they were, whatever an earlier load left of them.
C31_ProgramNotLoaded ==
  [][ast.type = "null" /\ runPc = "idle"
       /\ lastCall' \in {"step", "run", "initializeStepMode"}
       => /\ thrown' = <<RuntimeError("programNotLoaded", <<>>)>>
          /\ TheWorld' = TheWorld
          /\ executionStack' = executionStack
          /\ stepInitialized' = stepInitialized
          /\ stepCompleted' = stepCompleted
          /\ runPc' = "idle"
    ]_<<vars>>

\* A program ran in part, a source with a fatal error was loaded, and
\* step() was called.
C31_Witness ==
  /\ ast.type = "null"
  /\ lastCall = "step"
  /\ thrown = <<RuntimeError("programNotLoaded", <<>>)>>
  /\ stepInitialized
  /\ ~stepCompleted
  /\ executionStack # <<>>
  /\ isModified

\* C32: no transition executes more than one atomic step, and run() is
\* suspended in its delay, of the length of the speed set, after each step
\* that leaves more to do; when stop() was called during the delay and
\* nothing else since, the end of the delay ends run() with the World and
\* the interpreter as they were: no step, no completion, no notification.
C32_StopDuringDelay ==
  [][/\ onStepCalls' <= onStepCalls + 1
     /\ lastCall' = "run" /\ runPc = "idle" /\ runPc' = "delay"
          => /\ delayMs' = <<executionSpeed'>>
             /\ running' /\ ~stepCompleted'
             /\ onStepCalls' = onStepCalls + 1
     /\ lastCall' = "run" /\ runPc = "idle" /\ runPc' = "idle" /\ thrown' = <<>>
          => ~running' \/ stepCompleted'
     /\ runPc = "delay" /\ ~running /\ lastCall = "stop" /\ lastCall' = "stop"
          => /\ runPc' = "idle"
             /\ TheWorld' = TheWorld
             /\ <<interpVars>>' = <<interpVars>>
    ]_<<vars>>

\* stop() was called while run() was in its delay after the first step.
C32_Witness ==
  /\ runPc = "delay"
  /\ lastCall = "stop"
  /\ ~running
  /\ stepInitialized
  /\ ~stepCompleted
  /\ onStepCalls = 1
  /\ onCompleteCalls = 0

\* C33: when the onStep handler calls stop() during a call of a built-in
\* other than turnoff, and the call does not fail, the primitive is carried
\* out, the interpreter is left stopped, and the run is neither marked
\* completed nor notified complete.
C33_StopInFlight ==
  [][/\ onStepStops
     /\ onStepCalls' = onStepCalls + 1
     /\ onErrorCalls' = onErrorCalls
     /\ thrown' = <<>>
     /\ \A c \in Members(CallsOf(ast)) :
          c.line = currentLine' => c.name \in {"move", "turnleft", "TurnLeft"}
     => /\ isModified'
        /\ ~running'
        /\ ~stepCompleted'
        /\ onCompleteCalls' = onCompleteCalls
    ]_<<vars>>

\* The program loaded loops for ever but for the ceiling: the recursive
\* spin, or the WHILE with an empty body whose condition holds at the start.
Endless ==
  \/ ast = ProgSpin.ast
  \/ ast = ProgIdle.ast /\ initialKarel.facing # "south"

\* The frame transitions counted when the call of step() began.
CountBefore == IF stepInitialized THEN iterationCount ELSE 0

\* C34: with a program loaded, the host that keeps calling step() gets a
\* call that returns false; each call of step() makes at most maxIterations
\* frame transitions before it returns (one more is counted when the ceiling
\* error is raised), and a call that returns true made at least one; the
\* WHILE whose condition never changes and the instruction that calls itself
\* end with the maximum-iterations error, not with a completion.
C34_EveryRunEnds ==
  /\ <>(lastCall = "step" /\ lastStepRet = <<FALSE>>)
  /\ [][lastCall' = "step" =>
          /\ iterationCount' >= CountBefore
          /\ iterationCount' <= maxIterations + 1
          /\ iterationCount' = maxIterations + 1 /\ iterationCount <= maxIterations
               => lastError' = <<RuntimeError("maxIterationsReached", <<>>)>>
          /\ lastStepRet' = <<TRUE>> =>
               iterationCount' > CountBefore /\ iterationCount' <= maxIterations
       ]_<<vars>>
  /\ [](Endless /\ stepCompleted =>
          /\ lastError = <<RuntimeError("maxIterationsReached", <<>>)>>
          /\ onErrorCalls = 1
          /\ onCompleteCalls = 0)

C34_Witness ==
  /\ Endless
  /\ lastCall = "step"
  /\ lastStepRet = <<FALSE>>
  /\ stepCompleted
  /\ iterationCount = maxIterations + 1
  /\ onStepCalls > 0

\* The run() invocation suspended in its delay executes a step, or ends
\* the run, once the delay elapses.
DrivesOn ==
  /\ runPc = "delay"
  /\ \E r \in {runLoop(Cur)} :
       \/ r.state.onStepCalls # onStepCalls
       \/ r.state.world # TheWorld
       \/ r.state.stepCompleted # stepCompleted

\* C35: when stop() was called while run() is suspended in its delay and
\* step() is called before the delay elapses, that call executes one step
\* only, and the run() invocation stopped does not execute a further step
\* when its delay elapses.
C35_StepWhileStopped ==
  [][runPc = "delay" /\ ~running /\ lastCall = "stop" /\ lastCall' = "step"
       => /\ onStepCalls' <= onStepCalls + 1
          /\ runPc' = "delay"
          /\ ~DrivesOn'
    ]_<<vars>>

\* The World is as its construction snapshot and no notification has been
\* delivered since reset().
AsConstructed ==
  /\ karel = initialKarel
  /\ beepers = initialBeepers
  /\ ~isModified
  /\ onStepCalls = 0
  /\ onCompleteCalls = 0
  /\ onErrorCalls = 0

\* C36: reset() called while run() is suspended in its delay leaves the
\* World as its construction snapshot; when the delay elapses the run()
\* invocation ends and changes neither the World nor the Interpreter; and
\* as long as reset() is the last call made, the World is as constructed
\* and no step, completion or error notification has been delivered.
C36_ResetDuringDelay ==
  /\ [][runPc = "delay" /\ lastCall' = "reset" =>
           /\ AsConstructed'
           /\ ~running'
           /\ lastCall = "reset" =>
                /\ runPc' = "idle"
                /\ delayMs' = <<>>
                /\ thrown' = <<>>
                /\ TheWorld' = TheWorld
                /\ interpVars' = interpVars
       ]_<<vars>>
  /\ [](lastCall = "reset" => AsConstructed)

\* reset() was called during the delay of run(), and the delay has elapsed.
C36_Witness ==
  /\ lastCall = "reset"
  /\ ~stepOnly
  /\ runPc = "idle"
  /\ ast.type # "null"

\* The beepers of a World: those on its cells and those in the bag.
AllBeepers(w) == Total(w.beepers, 1) + w.karel.beepersInBag

\* C37: no call of move, turnLeft, pickBeeper or putBeeper, failed or not,
\* changes the sum of the beepers on the cells and in the bag, and the sum
\* is at all times the one of the World as constructed from its description.
C37_BeeperConservation ==
  /\ [][lastCall' \in {"move", "turnLeft", "pickBeeper", "putBeeper"}
          => AllBeepers(TheWorld)' = AllBeepers(TheWorld)]_<<vars>>
  /\ [](AllBeepers(TheWorld) = AllBeepers(World_new(map).world))

\* A beeper has been picked and the robot has moved on with it; the last
\* call failed.
C37_Witness ==
  /\ karel.beepersInBag > initialKarel.beepersInBag
  /\ karel.position # initialKarel.position
  /\ Total(beepers, 1) < Total(initialBeepers, 1)
  /\ lastCall \in {"pickBeeper", "putBeeper", "move"}
  /\ thrown # <<>>

\* The cell is one of the grid: column 1..width, row 1..height.
OnGrid(pos) ==
  /\ pos.x \in 1..dimensions.width
  /\ pos.y \in 1..dimensions.height

\* C38: the robot placed on a cell of the grid stays on the grid whatever
\* World calls and interpreter steps are made, and its position changes,
\* but for reset(), only to a neighbouring cell that no registered wall
\* separates from the cell it leaves.
C38_StaysOnGrid ==
  /\ [](OnGrid(initialKarel.position) => OnGrid(karel.position))
  /\ [][karel.position' # karel.position /\ lastCall' # "reset" =>
          /\ lastCall' \in {"move", "step"}
          /\ areAdjacent(karel.position, karel.position')
          /\ ~Walled(karel.position, karel.position')
       ]_<<vars>>

\* The robot has left its first cell and stands before a registered wall
\* that has a cell of the grid behind it; the move just tried has failed.
C38_Witness ==
  /\ OnGrid(initialKarel.position)
  /\ karel.position # initialKarel.position
  /\ OnGrid(Ahead)
  /\ Walled(karel.position, Ahead)
  /\ \/ lastCall = "move" /\ thrown # <<>>
     \/ lastCall = "step" /\ onErrorCalls > 0

\* The robot and every entry of the beeper map are those of the World as
\* constructed from its description.
AtSnapshot ==
  \A c \in {World_new(map).world} :
    /\ karel.position = c.karel.position
    /\ karel.facing = c.karel.facing
    /\ karel.beepersInBag = c.karel.beepersInBag
    /\ Members(beepers) = Members(c.beepers)
    /\ WorldState(TheWorld) = WorldState(c)

\* C39: while the modified flag is false the robot and the cell counts are
\* those of the construction snapshot; a call of move, turnLeft, pickBeeper
\* or putBeeper that succeeds sets the flag, one that fails leaves the flag
\* and the World as they were, and reset() clears the flag.
C39_ModifiedFlag ==
  /\ [](~isModified => AtSnapshot)
  /\ [][/\ lastCall' \in {"move", "turnLeft", "pickBeeper", "putBeeper"} =>
             IF thrown' = <<>> THEN isModified'
             ELSE isModified' = isModified /\ TheWorld' = TheWorld
         /\ lastCall' = "reset" => ~isModified'
       ]_<<vars>>

\* turnLeft has succeeded four times over, or a beeper was put and picked
\* again: the World is as at construction and the flag is set.
C39_Witness ==
  /\ isModified
  /\ AtSnapshot
  /\ lastCall \in {"turnLeft", "pickBeeper"}
  /\ thrown = <<>>

RECURSIVE ConditionsOf(_), ConditionsAmong(_, _)
\* The conditions of the if and while nodes of a tree, as the tree holds them.
ConditionsOf(node) ==
  CASE node.type = "if" ->
         <<node.condition>> \o ConditionsAmong(node.thenBranch.statements, 1)
           \o (IF node.elseBranch = <<>> THEN <<>>
               ELSE ConditionsAmong(node.elseBranch[1].statements, 1))
    [] node.type = "while" ->
         <<node.condition>> \o ConditionsAmong(node.body.statements, 1)
    [] node.type = "block" -> ConditionsAmong(node.statements, 1)
    [] node.type \in {"iterate", "define"} -> ConditionsAmong(node.body.statements, 1)
    [] node.type = "program" ->
         ConditionsAmong(node.definitions, 1)
           \o ConditionsAmong(node.execution.statements, 1)
    [] OTHER -> <<>>

\* The conditions of the nodes i.. of a sequence of nodes.
ConditionsAmong(nodes, i) ==
  IF i > Len(nodes) THEN <<>>
  ELSE ConditionsOf(nodes[i]) \o ConditionsAmong(nodes, i + 1)

\* C40: evaluateCondition knows every name of the lexer's condition table,
\* and every condition of an IF or WHILE of a tree that parse returns, in
\* the letter case the tree holds it: it evaluates it and does not throw.
C40_ConditionsKnown ==
  /\ \A name \in VALID_CONDITIONS : evaluateCondition(TheWorld, name).thrown = <<>>
  /\ parseResult # <<>> =>
       \A c \in Members(ConditionsOf(parseResult[1].ast)) :
         /\ evaluateCondition(TheWorld, c).thrown = <<>>
         /\ Join(Each(toLowerCase, <<c>>)) \in VALID_CONDITIONS

\* A tree with a WHILE whose condition is not written in lower case.
C40_Witness ==
  /\ parseResult # <<>>
  /\ parseResult[1].ast.type = "program"
  /\ \E c \in Members(ConditionsOf(parseResult[1].ast)) :
       c \notin VALID_CONDITIONS /\ evaluateCondition(TheWorld, c).ret

============================================================================
